---- MODULE Spec2Model ----
(***************************************************************************)
(* ERI form-filling automation: session acquisition (login_with_selenium), *)
(* cookie snapshot loading, the step sequencer and the batch runner.       *)
(* Text values that the code inspects character by character (URLs, cookie *)
(* domains, revenue digits) are sequences of one-character strings.        *)
(***************************************************************************)
EXTENDS Integers, Sequences, FiniteSets, TLC

VARIABLES
    \* ---- erieri_login_selenium2.py ----
    lpc,          \* position inside login_with_selenium
    page,         \* what the driver reports of the current page: url, password-field query, logout query
    lastGet,      \* URL of the last driver.get issued by login_with_selenium itself
    cookiesFile,  \* the cookie snapshot file: exists, valid JSON, cookie records
    jar,          \* cookies the browser session accepted through add_cookie
    addCalls,     \* every (host, cookie) handed to driver.add_cookie, in call order
    haveCreds,    \* _read_creds finds a username/password pair
    tried,        \* strategies attempted so far, in order
    passedAt,     \* strategy after which _is_logged_in returned True ("none" if none yet)
    ret,          \* value returned by login_with_selenium
    saves,        \* outcome of every _save_fresh_cookies call, in order
    ticks,        \* polls done by _attempt_auto_login
    authResult,   \* result of a stand-alone _is_logged_in call
    loadResult,   \* result of a stand-alone _load_cookies_safely call
    \* ---- V2.py ----
    rows,         \* records read from the CSV file
    bpc,          \* position inside run_multi_automation
    idx,          \* index of the record being processed
    stepNo,       \* number of steps of the current run that returned True
    cur,          \* self.eri_code .. self.data_type
    performed,    \* UI actions performed in the current run, in order
    runLog,       \* per record: how its run ended
    all_data,     \* self.all_data
    csvFile,      \* the result file: self.csv_filename set, file exists, lines written
    session,      \* the browser of the batch: none, open (held in self.driver), unheld, closed
    logins,       \* calls of login_with_selenium made by the batch runner
    resetLog,     \* page resets done at the head of run_subsequent_automation, in order
    resultsView,  \* the results page a stand-alone extract_years_experience_data call reads
    extraction,   \* result of a stand-alone extract_years_experience_data call
    user_input,   \* the string handed to a stand-alone parse_user_input call
    parsed,       \* result of a stand-alone parse_user_input call
    source,       \* the tabular input handed to parse_multi_input / read_csv_input
    ingested,     \* result of a stand-alone parse_multi_input / read_csv_input call
    saveCalls,    \* every save_to_csv call made on the object, in order
    uiCall,       \* a stand-alone call of one InteractionExecutor helper: the driver's responses
    uiResult,     \* what that call returned and the driver calls it made
    \* ---- csv_to_sheets.py ----
    sheet,        \* values of the remote sheet, row by row
    requests,     \* requests executed against the Sheets API, in order
    upload        \* a call of CSVToGoogleSheets.upload_to_sheets: arguments, position, return value

loginVars == <<lpc, page, lastGet, cookiesFile, jar, addCalls, haveCreds, tried,
               passedAt, ret, saves, ticks, authResult, loadResult>>
batchVars == <<rows, bpc, idx, stepNo, cur, performed, runLog, all_data, csvFile, session,
               logins, resetLog>>
sheetVars == <<sheet, requests, upload>>
callVars == <<source, ingested, saveCalls, uiCall, uiResult, sheetVars>>
unitVars == <<resultsView, extraction, user_input, parsed, callVars>>
vars == <<loginVars, batchVars, unitVars>>

----------------------------------------------------------------------------
\* Bounds of the model
MaxEls == 2        \* elements returned by one find_elements query
MaxCookies == 2    \* cookie records in the snapshot file
MaxRows == 3       \* records in the input CSV

----------------------------------------------------------------------------
\* Python str operations on character sequences

UpperChars == <<"A","B","C","D","E","F","G","H","I","J","K","L","M","N","O","P","Q","R","S","T","U","V","W","X","Y","Z">>
LowerChars == <<"a","b","c","d","e","f","g","h","i","j","k","l","m","n","o","p","q","r","s","t","u","v","w","x","y","z">>

LowerChar(c) ==
    IF \E i \in DOMAIN UpperChars : UpperChars[i] = c
    THEN LowerChars[CHOOSE i \in DOMAIN UpperChars : UpperChars[i] = c]
    ELSE c

\* s.lower()
Lower(s) == [i \in 1..Len(s) |-> LowerChar(s[i])]

\* sub in s
Contains(s, sub) ==
    \E i \in 0..(Len(s) - Len(sub)) : SubSeq(s, i + 1, i + Len(sub)) = sub

\* s.endswith(suf)
EndsWith(s, suf) ==
    Len(suf) <= Len(s) /\ SubSeq(s, Len(s) - Len(suf) + 1, Len(s)) = suf

\* s.lstrip(ch)
RECURSIVE LStrip(_, _)
LStrip(s, ch) == IF s # <<>> /\ Head(s) = ch THEN LStrip(Tail(s), ch) ELSE s

\* s.rstrip(ch)
RECURSIVE RStrip(_, _)
RStrip(s, ch) ==
    IF s # <<>> /\ s[Len(s)] = ch THEN RStrip(SubSeq(s, 1, Len(s) - 1), ch) ELSE s

\* s.strip(ch)
Strip(s, ch) == RStrip(LStrip(s, ch), ch)

\* s.split(sep, 1)[-1]: what follows the first occurrence of sep, or s itself
AfterFirst(s, sep) ==
    IF Contains(s, sep)
    THEN LET i == CHOOSE k \in 0..(Len(s) - Len(sep)) :
                    /\ SubSeq(s, k + 1, k + Len(sep)) = sep
                    /\ \A j \in 0..(k - 1) : SubSeq(s, j + 1, j + Len(sep)) # sep
         IN SubSeq(s, i + Len(sep) + 1, Len(s))
    ELSE s

----------------------------------------------------------------------------
\* URLs

HOME_URL == <<"h","t","t","p","s",":","/","/","o","n","l","i","n","e",".","e","r","i","e","r","i",".","c","o","m","/">>
LOGIN_URL == <<"h","t","t","p","s",":","/","/","o","n","l","i","n","e",".","e","r","i","e","r","i",".","c","o","m","/","A","c","c","o","u","n","t","/","L","o","g","i","n">>
ROOT_URL == <<"h","t","t","p","s",":","/","/","e","r","i","e","r","i",".","c","o","m","/">>

\* Other locations the site can leave the browser at
ReturnUrlPage == <<"h","t","t","p","s",":","/","/","o","n","l","i","n","e",".","e","r","i","e","r","i",".","c","o","m","/","A","c","c","o","u","n","t","/","L","o","g","i","n","?","R","e","t","u","r","n","U","r","l","=","%","2","F">>
SignInPage == <<"h","t","t","p","s",":","/","/","o","n","l","i","n","e",".","e","r","i","e","r","i",".","c","o","m","/","S","i","g","n","I","n">>
DashboardPage == <<"h","t","t","p","s",":","/","/","o","n","l","i","n","e",".","e","r","i","e","r","i",".","c","o","m","/","D","a","s","h","b","o","a","r","d">>
NoUrl == <<>>

PageUrls == {HOME_URL, LOGIN_URL, ReturnUrlPage, SignInPage, DashboardPage, NoUrl}

----------------------------------------------------------------------------
\* What the driver reports of a page

RECURSIVE BoolSeqs(_)
BoolSeqs(n) ==
    IF n = 0 THEN {<<>>}
    ELSE LET shorter == BoolSeqs(n - 1)
         IN shorter \cup {Append(s, b) : s \in {t \in shorter : Len(t) = n - 1}, b \in BOOLEAN}

\* A find_elements query either raises or returns elements, each displayed or not
Queries(n) ==
    {[raises |-> TRUE, els |-> <<>>]} \cup {[raises |-> FALSE, els |-> s] : s \in BoolSeqs(n)}

PageObs(n) == [url : PageUrls, pw : Queries(n), logout : Queries(n)]

NoElements == [raises |-> FALSE, els |-> <<>>]
OneShown == [raises |-> FALSE, els |-> <<TRUE>>]
BlankPage == [url |-> NoUrl, pw |-> NoElements, logout |-> NoElements]

\* for e in els: if e.is_displayed(): return True
RECURSIVE AnyDisplayed(_)
AnyDisplayed(els) ==
    IF els = <<>> THEN FALSE
    ELSE IF Head(els) THEN TRUE
    ELSE AnyDisplayed(Tail(els))

is_on_login_page_nolower(p) ==
    LET url == p.url IN
    IF Contains(url, <<"l","o","g","i","n">>) \/ Contains(url, <<"s","i","g","n","i","n">>)
    THEN TRUE
    ELSE IF p.pw.raises THEN FALSE
    ELSE AnyDisplayed(p.pw.els)

is_on_login_page(p) ==
    LET url == Lower(p.url) IN
    IF Contains(url, <<"l","o","g","i","n">>) \/ Contains(url, <<"s","i","g","n","i","n">>)
    THEN TRUE
    ELSE IF p.pw.raises THEN FALSE
    ELSE AnyDisplayed(p.pw.els)

is_logged_in_needs_logout(p) ==
    IF is_on_login_page(p) THEN FALSE
    ELSE (~p.logout.raises) /\ AnyDisplayed(p.logout.els)

\* _is_logged_in
is_logged_in(p) ==
    IF is_on_login_page(p) THEN FALSE
    ELSE IF (~p.logout.raises) /\ AnyDisplayed(p.logout.els) THEN TRUE
    ELSE ~Contains(Lower(p.url), <<"a","c","c","o","u","n","t","/","l","o","g","i","n">>)

----------------------------------------------------------------------------
\* Cookie snapshot records.  A record is a function from the keys present in
\* the JSON object to their values; JSON value kinds stand for the values of
\* expiry ("number", "string", "null") and of the boolean-like flags.

dom_parent == <<".","e","r","i","e","r","i",".","c","o","m">>
dom_host == <<"o","n","l","i","n","e",".","e","r","i","e","r","i",".","c","o","m">>
dom_root == <<"e","r","i","e","r","i",".","c","o","m">>
dom_upper == <<".","O","n","l","i","n","e",".","E","R","I","E","R","I",".","c","o","m">>
dom_tail == <<"e","r","i",".","c","o","m">>
dom_foreign == <<"e","x","a","m","p","l","e",".","c","o","m">>
dom_child == <<"s","u","b",".","o","n","l","i","n","e",".","e","r","i","e","r","i",".","c","o","m">>

CookiePool == {
    [name |-> "auth", domain |-> dom_parent, expiry |-> "number", httpOnly |-> "true"],
    [name |-> "sid", domain |-> dom_host, expiry |-> "string", sameSite |-> "Lax"],
    [name |-> "pref", domain |-> dom_upper, expiry |-> "null", secure |-> "0"],
    [name |-> "root", domain |-> dom_root],
    [name |-> "tail", domain |-> dom_tail, expiry |-> "number"],
    [name |-> "ads", domain |-> dom_foreign, expiry |-> "number", hostOnly |-> "false"],
    [name |-> "child", domain |-> dom_child, expiry |-> "string"],
    [name |-> "bare"],
    [name |-> "blank", domain |-> <<>>, expiry |-> "number"] }

RECURSIVE SeqsUpTo(_, _)
SeqsUpTo(S, n) ==
    IF n = 0 THEN {<<>>}
    ELSE LET shorter == SeqsUpTo(S, n - 1)
         IN shorter \cup {Append(s, x) : s \in {t \in shorter : Len(t) = n - 1}, x \in S}

MissingFile == [exists |-> FALSE, valid |-> FALSE, cookies |-> <<>>]
CorruptFile == [exists |-> TRUE, valid |-> FALSE, cookies |-> <<>>]
SnapshotOf(cs) == [exists |-> TRUE, valid |-> TRUE, cookies |-> cs]

\* bool(v) of a JSON flag
PyBool(v) == IF v \in {"false", "0"} THEN "False" ELSE "True"

sanitize_cookie_keep_expiry(c) ==
    LET keys == (DOMAIN c) \ {"sameSite", "hostOnly"}
    IN [k \in keys |-> IF k \in {"httpOnly", "secure"} THEN PyBool(c[k]) ELSE c[k]]

sanitize_cookie(c) ==
    LET dropped == IF "expiry" \in DOMAIN c /\ c.expiry \in {"string", "null"}
                   THEN {"expiry"} ELSE {}
        keys == (DOMAIN c) \ (dropped \cup {"sameSite", "hostOnly"})
    IN [k \in keys |-> IF k \in {"httpOnly", "secure"} THEN PyBool(c[k]) ELSE c[k]]

\* (c.get("domain") or "").lstrip(".").lower()
cookie_domain(c) ==
    Lower(LStrip(IF "domain" \in DOMAIN c THEN c.domain ELSE <<>>, "."))

\* host.split("//", 1)[-1].strip("/").lower()
host_netloc(host) == Lower(Strip(AfterFirst(host, <<"/","/">>), "/"))

\* domain == host_netloc or host_netloc.endswith(domain)
domain_accepted(domain, netloc) == domain = netloc \/ EndsWith(netloc, domain)

\* The loop of _add_cookies_for_host from record i on; refused holds the
\* indices for which driver.add_cookie raises WebDriverException.
RECURSIVE add_cookies_from(_, _, _, _)
add_cookies_from(cookies, host, refused, i) ==
    IF i > Len(cookies) THEN [calls |-> <<>>, accepted |-> <<>>, added |-> 0]
    ELSE LET rest == add_cookies_from(cookies, host, refused, i + 1)
             c == sanitize_cookie(cookies[i])
             domain == cookie_domain(c)
             call == [host |-> host, entry |-> i, cookie |-> c]
         IN IF domain = <<>> THEN rest
            ELSE IF domain_accepted(domain, host_netloc(host))
            THEN IF i \in refused
                 THEN [rest EXCEPT !.calls = <<call>> \o @]
                 ELSE [calls |-> <<call>> \o rest.calls,
                       accepted |-> <<call>> \o rest.accepted,
                       added |-> rest.added + 1]
            ELSE rest

add_cookies_for_host(cookies, host, refused) == add_cookies_from(cookies, host, refused, 1)

\* The records driver.add_cookie is called with on a host: the only ones it
\* can refuse
offered_to(cookies, host) ==
    {i \in DOMAIN cookies :
        /\ cookie_domain(sanitize_cookie(cookies[i])) # <<>>
        /\ domain_accepted(cookie_domain(sanitize_cookie(cookies[i])), host_netloc(host))}

\* _load_cookies_safely: the file may be missing, or not JSON (json.loads
\* raises before the session is touched); refused1 and refused2 are the
\* add_cookie refusals on the two hosts.
load_cookies_safely(file, refused1, refused2) ==
    IF ~file.exists \/ ~file.valid
    THEN [ok |-> FALSE, touched |-> FALSE, calls |-> <<>>, accepted |-> <<>>]
    ELSE LET a == add_cookies_for_host(file.cookies, HOME_URL, refused1)
             b == add_cookies_for_host(file.cookies, ROOT_URL, refused2)
         IN [ok |-> a.added + b.added > 0, touched |-> TRUE,
             calls |-> a.calls \o b.calls, accepted |-> a.accepted \o b.accepted]

\* _save_fresh_cookies: writes driver.get_cookies() to the file; any failure
\* of the read or of the write is swallowed.
save_fresh_cookies_raising(file, session_cookies, writeOk) ==
    [file |-> IF writeOk THEN SnapshotOf(session_cookies) ELSE file,
     raised |-> ~writeOk]

save_fresh_cookies(file, session_cookies, writeOk) ==
    [file |-> IF writeOk THEN SnapshotOf(session_cookies) ELSE file,
     raised |-> FALSE]

\* driver.get_cookies()
get_cookies(j) == [i \in 1..Len(j) |-> j[i].cookie]

----------------------------------------------------------------------------
\* login_with_selenium
\*
\* Environment: after every navigation the site decides which page the
\* browser shows; webdriver.Chrome may fail to start; add_cookie may refuse a
\* cookie; writing the cookie file may fail.  driver.get on the site's own
\* URLs is taken to complete (login_with_selenium does not guard those calls).

PollTicks == 60

\* Pages the site shows while a session is being established
LoginPages == {
    [url |-> HOME_URL, pw |-> NoElements, logout |-> OneShown],
    [url |-> DashboardPage, pw |-> NoElements, logout |-> NoElements],
    [url |-> ReturnUrlPage, pw |-> OneShown, logout |-> NoElements],
    [url |-> HOME_URL, pw |-> OneShown, logout |-> NoElements],
    [url |-> LOGIN_URL, pw |-> [raises |-> TRUE, els |-> <<>>], logout |-> NoElements] }

\* Snapshot files met by a login
LoginFiles == {
    MissingFile, CorruptFile, SnapshotOf(<<>>),
    SnapshotOf(<<[name |-> "auth", domain |-> dom_parent, expiry |-> "number", httpOnly |-> "true"]>>),
    SnapshotOf(<<[name |-> "ads", domain |-> dom_foreign, expiry |-> "number", hostOnly |-> "false"]>>) }

NoReturn == [returned |-> FALSE, driver |-> FALSE, auth |-> FALSE]

\* The order in which login_with_selenium tries its strategies
StrategyOrderSwapped == <<"profile", "creds", "cookies">>

StrategyOrder == <<"profile", "cookies", "creds">>

\* Where control goes when strategy s did not authenticate
next_strategy(s) ==
    LET i == CHOOSE k \in DOMAIN StrategyOrder : StrategyOrder[k] = s
    IN IF i < Len(StrategyOrder) THEN StrategyOrder[i + 1] ELSE "final"

\* return driver, True
authenticated_return == [returned |-> TRUE, driver |-> TRUE, auth |-> TRUE]

\* return driver, False
unauthenticated_return_no_driver == [returned |-> TRUE, driver |-> FALSE, auth |-> FALSE]

unauthenticated_return == [returned |-> TRUE, driver |-> TRUE, auth |-> FALSE]

\* The tail shared by the three "authenticated" branches: save the session's
\* cookies (best effort) and return (driver, True).
Authenticated(strategy, sessionJar, writeOk) ==
    LET w == save_fresh_cookies(cookiesFile, get_cookies(sessionJar), writeOk)
    IN /\ passedAt' = strategy
       /\ saves' = Append(saves, IF writeOk THEN "written" ELSE "failed")
       /\ cookiesFile' = w.file
       /\ IF w.raised
          THEN lpc' = "raised" /\ ret' = ret
          ELSE lpc' = "done" /\ ret' = authenticated_return

\* _build_driver: webdriver.Chrome(...) may raise
BuildDriver ==
    /\ lpc = "start"
    /\ \E built \in BOOLEAN :
         lpc' = IF built THEN StrategyOrder[1] ELSE "raised"
    /\ UNCHANGED <<page, lastGet, cookiesFile, jar, addCalls, haveCreds, tried,
                   passedAt, ret, saves, ticks, authResult, loadResult>>
    /\ UNCHANGED <<batchVars, unitVars>>

\* Fast path: the persistent profile is already authenticated
ProfileStrategy ==
    /\ lpc = "profile"
    /\ tried' = Append(tried, "profile")
    /\ lastGet' = HOME_URL
    /\ \E p \in LoginPages, writeOk \in BOOLEAN :
         /\ page' = p
         /\ IF is_logged_in(p)
            THEN Authenticated("profile", jar, writeOk)
            ELSE /\ lpc' = next_strategy("profile")
                 /\ UNCHANGED <<passedAt, saves, cookiesFile, ret>>
    /\ UNCHANGED <<jar, addCalls, haveCreds, ticks, authResult, loadResult>>
    /\ UNCHANGED <<batchVars, unitVars>>

\* Try cookies.json
CookieStrategy ==
    /\ lpc = "cookies"
    /\ tried' = Append(tried, "cookies")
    /\ \E r1 \in SUBSET offered_to(cookiesFile.cookies, HOME_URL),
          r2 \in SUBSET offered_to(cookiesFile.cookies, ROOT_URL),
          p \in LoginPages, writeOk \in BOOLEAN :
         LET L == load_cookies_safely(cookiesFile, r1, r2)
             newJar == IF L.touched THEN L.accepted ELSE jar
             newPage == IF L.touched THEN p ELSE page
         IN /\ addCalls' = addCalls \o L.calls
            /\ jar' = newJar
            /\ page' = newPage
            /\ lastGet' = IF L.touched THEN HOME_URL ELSE lastGet
            /\ IF L.ok /\ is_logged_in(newPage)
               THEN Authenticated("cookies", newJar, writeOk)
               ELSE /\ lpc' = next_strategy("cookies")
                    /\ UNCHANGED <<passedAt, saves, cookiesFile, ret>>
    /\ UNCHANGED <<haveCreds, ticks, authResult, loadResult>>
    /\ UNCHANGED <<batchVars, unitVars>>

\* _attempt_auto_login up to the submission of the form
AutoLoginSubmit ==
    /\ lpc = "creds"
    /\ tried' = Append(tried, "creds")
    /\ IF ~haveCreds
       THEN /\ lpc' = next_strategy("creds")
            /\ UNCHANGED <<page, lastGet, ticks>>
       ELSE \E p \in LoginPages, formFound \in BOOLEAN, submitted \in BOOLEAN :
              /\ page' = p
              /\ lastGet' = LOGIN_URL
              /\ ticks' = 0
              /\ lpc' = IF formFound /\ submitted THEN "poll" ELSE next_strategy("creds")
    /\ UNCHANGED <<cookiesFile, jar, addCalls, haveCreds, passedAt, ret, saves,
                   authResult, loadResult>>
    /\ UNCHANGED <<batchVars, unitVars>>

PollTickOneFewer ==
    /\ lpc = "poll"
    /\ ticks < PollTicks - 1
    /\ ticks' = ticks + 1
    /\ \E p \in LoginPages, writeOk \in BOOLEAN :
         /\ page' = p
         /\ IF is_logged_in(p)
            THEN Authenticated("creds", jar, writeOk)
            ELSE /\ lpc' = IF ticks + 1 = PollTicks - 1 THEN next_strategy("creds") ELSE "poll"
                 /\ UNCHANGED <<passedAt, saves, cookiesFile, ret>>
    /\ UNCHANGED <<lastGet, jar, addCalls, haveCreds, tried, authResult, loadResult>>
    /\ UNCHANGED <<batchVars, unitVars>>

\* One iteration of the post-login wait: sleep one second, check
PollTick ==
    /\ lpc = "poll"
    /\ ticks < PollTicks
    /\ ticks' = ticks + 1
    /\ \E p \in LoginPages, writeOk \in BOOLEAN :
         /\ page' = p
         /\ IF is_logged_in(p)
            THEN Authenticated("creds", jar, writeOk)
            ELSE /\ lpc' = IF ticks + 1 = PollTicks THEN next_strategy("creds") ELSE "poll"
                 /\ UNCHANGED <<passedAt, saves, cookiesFile, ret>>
    /\ UNCHANGED <<lastGet, jar, addCalls, haveCreds, tried, authResult, loadResult>>
    /\ UNCHANGED <<batchVars, unitVars>>

\* Final state: not logged in
FinalNavigation ==
    /\ lpc = "final"
    /\ lastGet' = LOGIN_URL
    /\ \E p \in LoginPages : page' = p
    /\ ret' = unauthenticated_return
    /\ lpc' = "done"
    /\ UNCHANGED <<cookiesFile, jar, addCalls, haveCreds, tried, passedAt, saves,
                   ticks, authResult, loadResult>>
    /\ UNCHANGED <<batchVars, unitVars>>

\* A stand-alone call of _is_logged_in on an arbitrary page
CheckAuth ==
    /\ lpc = "check"
    /\ authResult' = [done |-> TRUE, value |-> is_logged_in(page)]
    /\ lpc' = "checked"
    /\ UNCHANGED <<page, lastGet, cookiesFile, jar, addCalls, haveCreds, tried,
                   passedAt, ret, saves, ticks, loadResult>>
    /\ UNCHANGED <<batchVars, unitVars>>

\* A stand-alone call of _load_cookies_safely on an arbitrary snapshot file
LoadCookies ==
    /\ lpc = "load"
    /\ \E r1 \in SUBSET offered_to(cookiesFile.cookies, HOME_URL),
          r2 \in SUBSET offered_to(cookiesFile.cookies, ROOT_URL) :
         LET L == load_cookies_safely(cookiesFile, r1, r2)
         IN /\ addCalls' = L.calls
            /\ jar' = IF L.touched THEN L.accepted ELSE jar
            /\ loadResult' = [done |-> TRUE, ok |-> L.ok]
    /\ lpc' = "loaded"
    /\ UNCHANGED <<page, lastGet, cookiesFile, haveCreds, tried, passedAt, ret,
                   saves, ticks, authResult>>
    /\ UNCHANGED <<batchVars, unitVars>>

----------------------------------------------------------------------------
\* Initial states

NoRecord == [eri_code |-> "", location |-> "", revenue |-> <<>>, industry |-> "",
             years_experience |-> "", data_type |-> ""]

\* The result file before the first save_to_csv call: self.csv_filename is
\* None and no file of the name it will get exists
NoFile == [named |-> FALSE, exists |-> FALSE, lines |-> <<>>]

BatchIdle ==
    /\ rows = <<>>
    /\ bpc = "idle"
    /\ idx = 0
    /\ stepNo = 0
    /\ cur = NoRecord
    /\ performed = <<>>
    /\ runLog = <<>>
    /\ all_data = <<>>
    /\ csvFile = NoFile
    /\ session = "none"
    /\ logins = 0
    /\ resetLog = <<>>

\* No stand-alone extraction or parse is under way
NoView == [summary |-> [state |-> "absent", text |-> <<>>], table |-> <<>>]
NoExtraction == [done |-> FALSE, none |-> FALSE, data |-> NoRecord, reads |-> <<>>]
NoParse == [done |-> FALSE, returned |-> FALSE]

\* No stand-alone ingest, save or helper call is under way
NoIngest == [done |-> FALSE, path |-> "none", rows |-> <<>>]
NoCall == [helper |-> "none"]
NoResult == [done |-> FALSE]

NoUpload == [pc |-> "idle"]

SheetIdle ==
    /\ sheet = <<>>
    /\ requests = <<>>
    /\ upload = NoUpload

CallIdle ==
    /\ source = <<>>
    /\ ingested = NoIngest
    /\ saveCalls = <<>>
    /\ uiCall = NoCall
    /\ uiResult = NoResult
    /\ SheetIdle

UnitIdle ==
    /\ resultsView = NoView
    /\ extraction = NoExtraction
    /\ user_input = <<>>
    /\ parsed = NoParse
    /\ CallIdle

LoginFresh ==
    /\ page = BlankPage
    /\ lastGet = NoUrl
    /\ jar = <<>>
    /\ addCalls = <<>>
    /\ tried = <<>>
    /\ passedAt = "none"
    /\ ret = NoReturn
    /\ saves = <<>>
    /\ ticks = 0
    /\ authResult = [done |-> FALSE, value |-> FALSE]
    /\ loadResult = [done |-> FALSE, ok |-> FALSE]

InitLogin ==
    /\ lpc = "start"
    /\ LoginFresh
    /\ cookiesFile \in LoginFiles
    /\ haveCreds \in BOOLEAN
    /\ BatchIdle
    /\ UnitIdle

NextLogin ==
    \/ BuildDriver
    \/ ProfileStrategy
    \/ CookieStrategy
    \/ AutoLoginSubmit
    \/ PollTick
    \/ FinalNavigation

SpecLogin == InitLogin /\ [][NextLogin]_vars

InitCookies ==
    /\ lpc = "load"
    /\ LoginFresh
    /\ cookiesFile \in {MissingFile, CorruptFile}
                        \cup {SnapshotOf(cs) : cs \in SeqsUpTo(CookiePool, MaxCookies)}
    /\ haveCreds = FALSE
    /\ BatchIdle
    /\ UnitIdle

SpecCookies == InitCookies /\ [][LoadCookies]_vars

InitAuth ==
    /\ lpc = "check"
    /\ lastGet = NoUrl
    /\ jar = <<>>
    /\ addCalls = <<>>
    /\ tried = <<>>
    /\ passedAt = "none"
    /\ ret = NoReturn
    /\ saves = <<>>
    /\ ticks = 0
    /\ authResult = [done |-> FALSE, value |-> FALSE]
    /\ loadResult = [done |-> FALSE, ok |-> FALSE]
    /\ page \in PageObs(MaxEls)
    /\ cookiesFile = MissingFile
    /\ haveCreds = FALSE
    /\ BatchIdle
    /\ UnitIdle

SpecAuth == InitAuth /\ [][CheckAuth]_vars

----------------------------------------------------------------------------
\* Properties of session acquisition

IsPrefix(s, t) == Len(s) <= Len(t) /\ SubSeq(t, 1, Len(s)) = s

\* C3: login_with_selenium tries persistent profile, cookie snapshot and
\* username/password login strictly in that order, and returns
\* authenticated=true at the first strategy after which the authentication
\* check passes, attempting no later strategy.
C3_StrategiesInOrderShortCircuit ==
    /\ IsPrefix(tried, <<"profile", "cookies", "creds">>)
    /\ passedAt # "none" =>
         /\ tried # <<>>
         /\ tried[Len(tried)] = passedAt
         /\ lpc = "done"
         /\ ret = [returned |-> TRUE, driver |-> TRUE, auth |-> TRUE]
    /\ ret.auth => passedAt # "none"

C3_Witness ==
    /\ ret.returned /\ ret.auth
    /\ passedAt = "cookies"
    /\ tried = <<"profile", "cookies">>

C7_SaveBeforeAuthenticatedReturn ==
    /\ ret.auth => Len(saves) = 1
    /\ Len(saves) <= 1
    /\ saves # <<>> =>
         /\ lpc = "done"
         /\ ret = [returned |-> TRUE, driver |-> TRUE, auth |-> TRUE]
    /\ saves = <<"written">> => cookiesFile = SnapshotOf(get_cookies(jar))

C7_Witness ==
    /\ saves = <<"failed">>
    /\ ret.returned /\ ret.auth /\ ret.driver

\* The claim's terms, stated on what the driver reports of the page
UrlMentions(p, word) == Contains(Lower(p.url), word)
Shown(q) == (~q.raises) /\ (\E i \in DOMAIN q.els : q.els[i])
LoginIndicatorPage(p) ==
    \/ UrlMentions(p, <<"l","o","g","i","n">>)
    \/ UrlMentions(p, <<"s","i","g","n","i","n">>)
    \/ Shown(p.pw)
AtLoginEndpoint(p) == UrlMentions(p, <<"a","c","c","o","u","n","t","/","l","o","g","i","n">>)

\* C8: _is_logged_in returns true exactly when the session is not on a
\* login-indicator page (URL containing 'login' or 'signin', or a visible
\* password field) and a visible logout control exists or the current URL is
\* not the login endpoint.
C8_AuthCheckDefinition ==
    authResult.done =>
        (authResult.value <=>
            (~LoginIndicatorPage(page) /\ (Shown(page.logout) \/ ~AtLoginEndpoint(page))))

C8_Witness ==
    /\ authResult.done /\ authResult.value
    /\ page.url = DashboardPage
    /\ page.pw.els = <<FALSE, FALSE>>
    /\ ~Shown(page.logout)

\* The claim's domain test: the cookie's domain with one leading dot removed,
\* lower-cased, equals the host name or is a dot-delimited parent of it.
ClaimDomain(raw) ==
    LET d == IF "domain" \in DOMAIN raw THEN raw.domain ELSE <<>>
    IN Lower(IF d # <<>> /\ Head(d) = "." THEN Tail(d) ELSE d)
HostName(host) ==
    IF host = HOME_URL THEN dom_host ELSE dom_root
DotParent(d, h) == d # <<>> /\ (d = h \/ EndsWith(h, <<".">> \o d))

\* C5: during cookie load a cookie is passed to add_cookie only if its domain
\* equals the host name or is a dot-delimited parent domain of it.
C5_OnlyMatchingDomainsAdded ==
    \A k \in DOMAIN addCalls :
        DotParent(ClaimDomain(cookiesFile.cookies[addCalls[k].entry]),
                  HostName(addCalls[k].host))

UnparseableExpiry(raw) == "expiry" \in DOMAIN raw /\ raw.expiry \in {"string", "null"}

----------------------------------------------------------------------------
\* Python int(), str() and the ',' format on character sequences

Digits == <<"0","1","2","3","4","5","6","7","8","9">>
IsDigit(c) == \E i \in DOMAIN Digits : Digits[i] = c
DigitVal(c) == (CHOOSE i \in DOMAIN Digits : Digits[i] = c) - 1

\* The number written by a sequence of decimal digits
DigitsValue(s) ==
    LET value[n \in 0..Len(s)] ==
            IF n = 0 THEN 0 ELSE value[n - 1] * 10 + DigitVal(s[n])
    IN value[Len(s)]

\* int(s): surrounding blanks are ignored; anything but decimal digits raises
\* ValueError (signs and underscores do not occur in the inputs modelled)
ParseInt(s) ==
    LET body == Strip(s, " ")
    IN IF body # <<>> /\ \A i \in DOMAIN body : IsDigit(body[i])
       THEN [ok |-> TRUE, val |-> DigitsValue(body)]
       ELSE [ok |-> FALSE, val |-> 0]

\* str(n), n >= 0
RECURSIVE IntToStr(_)
IntToStr(n) ==
    IF n < 10 THEN <<Digits[n + 1]>>
    ELSE IntToStr(n \div 10) \o <<Digits[(n % 10) + 1]>>

\* f"{n:,}", n >= 0
FormatThousands(n) ==
    LET text[m \in Nat] ==
            IF m < 1000 THEN IntToStr(m)
            ELSE text[m \div 1000]
                 \o <<",", Digits[((m % 1000) \div 100) + 1], Digits[((m % 100) \div 10) + 1], Digits[(m % 10) + 1]>>
    IN text[n]

----------------------------------------------------------------------------
\* Input records (read_csv_input delivers every field as a stripped string)

PyNone == <<"None">>   \* distinct from every character sequence

\* The bare tokens parse_user_input accepts as data_type
ParseTokens == {"Mean", "Median", "25th Percentile", "75th Percentile"}
TokenText(n) ==
    CASE n = "Mean" -> <<"M","e","a","n">>
      [] n = "Median" -> <<"M","e","d","i","a","n">>
      [] n = "25th Percentile" -> <<"2","5","t","h"," ","P","e","r","c","e","n","t","i","l","e">>
      [] n = "75th Percentile" -> <<"7","5","t","h"," ","P","e","r","c","e","n","t","i","l","e">>

\* The text of a statistic name
StatisticText(n) ==
    IF n = "All Incumbent Average"
    THEN <<"A","l","l"," ","I","n","c","u","m","b","e","n","t"," ","A","v","e","r","a","g","e">>
    ELSE TokenText(n)

RecordPool == {
    [eri_code |-> <<"4","0","0","6">>, location |-> <<"D","a","l","l","a","s",","," ","T","e","x","a","s">>,
     revenue |-> <<"5","6","5","0","0","0","0","0","0">>, industry |-> <<"A","l","l"," ","I","n","d","u","s","t","r","i","e","s"," ","-"," ","D","i","v","e","r","s","i","f","i","e","d">>,
     years_experience |-> <<"1","1">>, data_type |-> "75th Percentile"],
    [eri_code |-> <<"1","2","3","4">>, location |-> <<"A","u","s","t","i","n",","," ","T","e","x","a","s">>,
     revenue |-> <<"9","5","0">>, industry |-> <<"R","e","t","a","i","l">>,
     years_experience |-> <<"5">>, data_type |-> "Mean"],
    [eri_code |-> <<"2","0","0","1">>, location |-> <<"D","a","l","l","a","s",","," ","T","e","x","a","s">>,
     revenue |-> <<"1",",","2","0","0">>, industry |-> <<"R","e","t","a","i","l">>,
     years_experience |-> <<"N","/","A">>, data_type |-> "All Incumbent Average"],
    [eri_code |-> <<"4","0","0","6">>, location |-> <<"A","u","s","t","i","n",","," ","T","e","x","a","s">>,
     revenue |-> <<"1","2","0","0">>, industry |-> <<"A","l","l"," ","I","n","d","u","s","t","r","i","e","s"," ","-"," ","D","i","v","e","r","s","i","f","i","e","d">>,
     years_experience |-> <<"N","/","A">>, data_type |-> "Mean"] }

----------------------------------------------------------------------------
\* The results view read by extract_years_experience_data

ScanLimit == 20

\* A cell read gives the cell's text, finds no such element
\* (NoSuchElementException) or fails otherwise (e.g. a stale element)
TextCell(x) == [state |-> "text", text |-> x]
StaleCell == [state |-> "error", text |-> <<>>]
AbsentCell == [state |-> "absent", text |-> <<>>]

\* A table row: the years cell (td[1]) and the value cells td[4], td[5]
BatchViews == {
    [summary |-> TextCell(<<"9","8",",","0","0","0">>),
     table |-> << [years |-> TextCell(<<"5">>), td4 |-> TextCell(<<"3","0","0">>), td5 |-> TextCell(<<"4","0","0">>)],
                  [years |-> TextCell(<<"1","1">>), td4 |-> TextCell(<<"3","1","0">>), td5 |-> TextCell(<<"4","2","0">>)] >>],
    [summary |-> StaleCell, table |-> <<>>] }

NotFound == <<"N","o","t"," ","f","o","u","n","d">>
NA == <<"N","/","A">>

\* find_element on td[col] of tr[r]: no element when the table has no row r
cell_at(table, r, col) == IF r > Len(table) THEN AbsentCell ELSE table[r][col]

\* The column read for a matching row (only Mean and 75th Percentile get here)
data_column(data_type) == IF data_type = "Mean" THEN "td4" ELSE "td5"

RECURSIVE scan_rows_last_match(_, _, _, _)
scan_rows_last_match(table, target, data_type, r) ==
    IF r >= ScanLimit THEN [value |-> NotFound, reads |-> <<>>]
    ELSE LET years == cell_at(table, r, "years")
             col == data_column(data_type)
             data == cell_at(table, r, col)
             rest == scan_rows_last_match(table, target, data_type, r + 1)
         IN IF years.state = "absent"
            THEN [value |-> NotFound, reads |-> << <<r, "years">> >>]
            ELSE IF years.state = "error" \/ Strip(years.text, " ") # IntToStr(target)
            THEN [value |-> rest.value, reads |-> << <<r, "years">> >> \o rest.reads]
            ELSE [value |-> IF data.state = "text" /\ rest.value = NotFound
                            THEN Strip(data.text, " ") ELSE rest.value,
                  reads |-> << <<r, "years">>, <<r, col>> >> \o rest.reads]

RECURSIVE scan_rows_past_missing(_, _, _, _)
scan_rows_past_missing(table, target, data_type, r) ==
    IF r >= ScanLimit THEN [value |-> NotFound, reads |-> <<>>]
    ELSE LET years == cell_at(table, r, "years")
             col == data_column(data_type)
             data == cell_at(table, r, col)
             rest == scan_rows_past_missing(table, target, data_type, r + 1)
         IN IF years.state # "text" \/ Strip(years.text, " ") # IntToStr(target)
            THEN [value |-> rest.value, reads |-> << <<r, "years">> >> \o rest.reads]
            ELSE IF data.state = "text"
            THEN [value |-> Strip(data.text, " "), reads |-> << <<r, "years">>, <<r, col>> >>]
            ELSE [value |-> rest.value,
                  reads |-> << <<r, "years">>, <<r, col>> >> \o rest.reads]

RECURSIVE scan_rows_stop_on_cell_error(_, _, _, _)
scan_rows_stop_on_cell_error(table, target, data_type, r) ==
    IF r >= ScanLimit THEN [value |-> NotFound, reads |-> <<>>]
    ELSE LET years == cell_at(table, r, "years")
             col == data_column(data_type)
             data == cell_at(table, r, col)
             rest == scan_rows_stop_on_cell_error(table, target, data_type, r + 1)
         IN IF years.state # "text"
            THEN [value |-> NotFound, reads |-> << <<r, "years">> >>]
            ELSE IF Strip(years.text, " ") # IntToStr(target)
            THEN [value |-> rest.value, reads |-> << <<r, "years">> >> \o rest.reads]
            ELSE IF data.state = "text"
            THEN [value |-> Strip(data.text, " "), reads |-> << <<r, "years">>, <<r, col>> >>]
            ELSE [value |-> NotFound, reads |-> << <<r, "years">>, <<r, col>> >>]

\* The row loop from row r on: the value found and the cells read, in order
RECURSIVE scan_rows(_, _, _, _)
scan_rows(table, target, data_type, r) ==
    IF r >= ScanLimit THEN [value |-> NotFound, reads |-> <<>>]
    ELSE LET years == cell_at(table, r, "years")
             col == data_column(data_type)
             data == cell_at(table, r, col)
             rest == scan_rows(table, target, data_type, r + 1)
         IN IF years.state = "absent"
            THEN [value |-> NotFound, reads |-> << <<r, "years">> >>]
            ELSE IF years.state = "error" \/ Strip(years.text, " ") # IntToStr(target)
            THEN [value |-> rest.value, reads |-> << <<r, "years">> >> \o rest.reads]
            ELSE IF data.state = "text"
            THEN [value |-> Strip(data.text, " "), reads |-> << <<r, "years">>, <<r, col>> >>]
            ELSE [value |-> rest.value,
                  reads |-> << <<r, "years">>, <<r, col>> >> \o rest.reads]

result_record(c, years, value) ==
    [eri_code |-> c.eri_code, location |-> c.location, industry |-> c.industry,
     revenue |-> c.revenue, years_experience |-> years, data_type |-> c.data_type,
     extracted_value |-> value]

\* extract_years_experience_data: none stands for the None returned when an
\* exception escapes to the outer handler (int() of a non-numeric years value);
\* reads are the cells the call asked the driver for
extract_years_experience_data(c, view) ==
    LET years == IF c.years_experience = PyNone \/ c.years_experience = <<>>
                 THEN NA ELSE c.years_experience
    IN IF c.data_type = "All Incumbent Average"
       THEN [none |-> FALSE,
             data |-> result_record(c, years,
                        IF view.summary.state = "text"
                        THEN Strip(view.summary.text, " ") ELSE NotFound),
             reads |-> << <<0, "summary">> >>]
       ELSE IF c.data_type \in {"Mean", "75th Percentile"}
       THEN IF c.years_experience = PyNone
            THEN [none |-> FALSE, data |-> result_record(c, NA, NotFound), reads |-> <<>>]
            ELSE IF ~ParseInt(c.years_experience).ok
            THEN [none |-> TRUE, data |-> result_record(c, years, NotFound), reads |-> <<>>]
            ELSE LET found == scan_rows(view.table, ParseInt(c.years_experience).val,
                                        c.data_type, 1)
                 IN [none |-> FALSE, data |-> result_record(c, years, found.value),
                     reads |-> found.reads]
       ELSE [none |-> FALSE, data |-> result_record(c, years, NotFound), reads |-> <<>>]

----------------------------------------------------------------------------
\* InteractionExecutor: what each helper does with the driver, for each way
\* the driver can answer

\* Exceptions the handlers meet; 'except Exception' does not catch
\* KeyboardInterrupt
IsException(exc) == exc \in {"OSError", "ValueError", "TimeoutException",
                             "NoSuchElementException", "ElementNotInteractableException",
                             "ElementClickInterceptedException",
                             "StaleElementReferenceException", "JavascriptException",
                             "WebDriverException"}

\* An except clause of the set catches exc: the class itself, any exception
\* class under 'except Exception', everything under a bare 'except:'
Catches(handlers, exc) ==
    \E h \in handlers : h = exc \/ (h = "Exception" /\ IsException(exc)) \/ h = "bare"

\* A try block that made the driver calls 'calls' and met exc ("none": ran to
\* its 'return True'), every handler being 'return False'
Outcome(handlers, exc, calls) ==
    [returned |-> exc = "none",
     raised |-> IF exc = "none" \/ Catches(handlers, exc) THEN "none" ELSE exc,
     failure |-> exc,
     calls |-> calls]

\* WebDriverWait(...).until(element_to_be_clickable): the element, a timeout,
\* or a failure of the session
WaitFailures == {"TimeoutException", "WebDriverException"}
ClickFailures == {"ElementNotInteractableException", "ElementClickInterceptedException",
                  "StaleElementReferenceException"}
KeyFailures == {"ElementNotInteractableException", "StaleElementReferenceException"}

\* The driver's answers to wait, scrollIntoView, element.click() and the
\* JavaScript click; a call the helper does not reach is "unreached"
ClickEnv(w, s, c, j) == [wait |-> w, scroll |-> s, click |-> c, js |-> j]

ClickEnvs ==
    {ClickEnv(w, "unreached", "unreached", "unreached") : w \in WaitFailures}
    \cup {ClickEnv("found", "unreached", "ok", "unreached")}
    \cup {ClickEnv("found", "unreached", c, j) : c \in ClickFailures, j \in {"ok", "JavascriptException"}}

ScrolledClickEnvs ==
    {ClickEnv(w, "unreached", "unreached", "unreached") : w \in WaitFailures}
    \cup {ClickEnv("found", "JavascriptException", "unreached", "unreached")}
    \cup {ClickEnv("found", "ok", "ok", "unreached")}
    \cup {ClickEnv("found", "ok", "ElementNotInteractableException", j) :
             j \in {"ok", "JavascriptException"}}
    \cup {ClickEnv("found", "ok", c, "unreached") :
             c \in ClickFailures \ {"ElementNotInteractableException"}}

\* wait; scroll into view if 'scrolls'; element.click(); when that raises an
\* exception the inner clause 'fallback_on' catches, the JavaScript click
click_with_fallback(env, scrolls, fallback_on, handlers) ==
    LET found == env.wait = "found"
        scrolled == found /\ (~scrolls \/ env.scroll = "ok")
        falls_back == scrolled /\ env.click # "ok" /\ Catches(fallback_on, env.click)
        exc == IF ~found THEN env.wait
               ELSE IF ~scrolled THEN env.scroll
               ELSE IF env.click = "ok" THEN "none"
               ELSE IF ~falls_back THEN env.click
               ELSE IF env.js = "ok" THEN "none" ELSE env.js
        calls == <<"wait">>
                 \o (IF found /\ scrolls THEN <<"scrollIntoView">> ELSE <<>>)
                 \o (IF scrolled THEN <<"click">> ELSE <<>>)
                 \o (IF falls_back THEN <<"js_click">> ELSE <<>>)
    IN Outcome(handlers, exc, calls)

\* V0.py wait_and_click: scrolls, falls back on ElementNotInteractableException
wait_and_click_V0(env) ==
    click_with_fallback(env, TRUE, {"ElementNotInteractableException"},
                        {"TimeoutException", "Exception"})

wait_and_click_timeout_only(env) ==
    click_with_fallback(env, FALSE, {"Exception"}, {"TimeoutException"})

\* V2.py wait_and_click: the block that returns at lines 134-146; the code
\* after it (scrollIntoView, ElementNotInteractableException) is never run
wait_and_click(env) ==
    click_with_fallback(env, FALSE, {"Exception"}, {"TimeoutException", "Exception"})

\* Step 6 inline: run_complete_automation catches only TimeoutException
\* around a bare 'except:' fallback, run_subsequent_automation 'Exception'
click_confirm(i, env) ==
    IF i = 1
    THEN click_with_fallback(env, FALSE, {"bare"}, {"TimeoutException"})
    ELSE click_with_fallback(env, FALSE, {"Exception"}, {"Exception"})

\* switch_to.active_element, then ARROW_DOWN three times and ENTER: the key
\* number 'fails_at' (0: none) raises 'exc'
KeyEnvs ==
    {[active |-> "WebDriverException", fails_at |-> 0, exc |-> "none"],
     [active |-> "ok", fails_at |-> 0, exc |-> "none"]}
    \cup {[active |-> "ok", fails_at |-> k, exc |-> e] : k \in 1..4, e \in KeyFailures}

KeysSent == <<"ARROW_DOWN", "ARROW_DOWN", "ARROW_DOWN", "ENTER">>

\* dropdown_keyboard_selection
dropdown_keyboard_selection(env) ==
    LET exc == IF env.active # "ok" THEN env.active ELSE env.exc
        sent == IF env.active # "ok" THEN <<>>
                ELSE IF env.fails_at = 0 THEN KeysSent
                ELSE SubSeq(KeysSent, 1, env.fails_at)
    IN Outcome({"Exception"}, exc, <<"active_element">> \o sent)

\* Step 5 inline: wait, clear(), send_keys(eri_code)
CodeEnvs ==
    {[wait |-> w, clear |-> "unreached", send |-> "unreached"] : w \in WaitFailures}
    \cup {[wait |-> "found", clear |-> e, send |-> "unreached"] : e \in KeyFailures}
    \cup {[wait |-> "found", clear |-> "ok", send |-> e] : e \in KeyFailures \cup {"ok"}}

type_code(env) ==
    LET exc == IF env.wait # "found" THEN env.wait
               ELSE IF env.clear # "ok" THEN env.clear
               ELSE IF env.send # "ok" THEN env.send ELSE "none"
        calls == <<"wait">>
                 \o (IF env.wait = "found" THEN <<"clear">> ELSE <<>>)
                 \o (IF env.wait = "found" /\ env.clear = "ok" THEN <<"send_keys">> ELSE <<>>)
    IN Outcome({"Exception"}, exc, calls)

\* type_and_enter: the mask query (no mask, a hidden one, a shown one whose
\* dismissal works or raises), the wait, scrollIntoView, click,
\* enhanced_text_clear_and_type (the field is empty after select-all and
\* delete, or content remains, or a key raises) and ENTER
TypeEnv(m, w, s, c, t, e) ==
    [mask |-> m, wait |-> w, scroll |-> s, click |-> c, typing |-> t, enter |-> e]

MaskStates == {"absent", "hidden", "dismissed", "dismiss_raises"}

TypeEnvs ==
    {TypeEnv(m, w, "unreached", "unreached", "unreached", "unreached") :
        m \in MaskStates, w \in WaitFailures}
    \cup {TypeEnv(m, "found", "JavascriptException", "unreached", "unreached", "unreached") :
        m \in MaskStates}
    \cup {TypeEnv(m, "found", "ok", "ElementClickInterceptedException", "unreached", "unreached") :
        m \in MaskStates}
    \cup {TypeEnv(m, "found", "ok", "ok", "StaleElementReferenceException", "unreached") :
        m \in MaskStates}
    \cup {TypeEnv(m, "found", "ok", "ok", t, e) :
        m \in MaskStates, t \in {"cleared", "content_remains"},
        e \in {"ok", "StaleElementReferenceException"}}

enhanced_text_clear_and_type_ignoring_errors(typing) ==
    [returned |-> TRUE,
     calls |-> IF typing = "cleared" THEN <<"select_all", "delete", "read_value", "type_text">>
               ELSE IF typing = "content_remains"
               THEN <<"select_all", "delete", "read_value", "backspaces", "type_text">>
               ELSE <<"select_all">>]

\* enhanced_text_clear_and_type: True, or False when a key raised
enhanced_text_clear_and_type(typing) ==
    [returned |-> typing \in {"cleared", "content_remains"},
     calls |-> IF typing = "cleared" THEN <<"select_all", "delete", "read_value", "type_text">>
               ELSE IF typing = "content_remains"
               THEN <<"select_all", "delete", "read_value", "backspaces", "type_text">>
               ELSE <<"select_all">>]

type_and_enter(env) ==
    LET mask_calls == <<"find_mask">>
                      \o (IF env.mask \in {"dismissed", "dismiss_raises"}
                          THEN <<"hide_mask">> ELSE <<>>)
        found == env.wait = "found"
        scrolled == found /\ env.scroll = "ok"
        clicked == scrolled /\ env.click = "ok"
        typed == enhanced_text_clear_and_type(env.typing)
        exc == IF ~found THEN env.wait
               ELSE IF ~scrolled THEN env.scroll
               ELSE IF ~clicked THEN env.click
               ELSE IF ~typed.returned THEN "none"
               ELSE IF env.enter = "ok" THEN "none" ELSE env.enter
        calls == mask_calls \o <<"wait">>
                 \o (IF found THEN <<"scrollIntoView">> ELSE <<>>)
                 \o (IF scrolled THEN <<"click">> ELSE <<>>)
                 \o (IF clicked THEN typed.calls ELSE <<>>)
                 \o (IF clicked /\ typed.returned THEN <<"ENTER">> ELSE <<>>)
        o == Outcome({"TimeoutException", "Exception"}, exc, calls)
    IN IF clicked /\ ~typed.returned
       THEN [o EXCEPT !.returned = FALSE, !.failure = env.typing]
       ELSE o

\* The element.send_keys calls behind one call of the helper: CONTROL+a,
\* DELETE, one BACKSPACE for each character of current_value and five more,
\* one call for each character of text, ENTER
call_keys(call, current_value, text) ==
    CASE call = "select_all" -> <<"CONTROL+a">>
      [] call = "delete" -> <<"DELETE">>
      [] call = "backspaces" -> [k \in 1..(Len(current_value) + 5) |-> "BACKSPACE"]
      [] call = "type_text" -> [k \in 1..Len(text) |-> text[k]]
      [] call = "ENTER" -> <<"ENTER">>
      [] OTHER -> <<>>

\* All send_keys calls of a helper call, in the order they were made
send_keys(calls, current_value, text) ==
    LET keys[n \in 0..Len(calls)] ==
            IF n = 0 THEN <<>>
            ELSE keys[n - 1] \o call_keys(calls[n], current_value, text)
    IN keys[Len(calls)]

StepEnvs(kind) ==
    CASE kind = "Click" -> ClickEnvs
      [] kind = "KeyboardSelect" -> KeyEnvs
      [] kind = "ClearAndType" -> CodeEnvs
      [] kind = "ClickConfirm" -> ClickEnvs
      [] kind = "TypeAndEnter" -> TypeEnvs

\* What the step of the given kind does in the run of record i
step_result(i, kind, env) ==
    CASE kind = "Click" -> wait_and_click(env)
      [] kind = "KeyboardSelect" -> dropdown_keyboard_selection(env)
      [] kind = "ClearAndType" -> type_code(env)
      [] kind = "ClickConfirm" -> click_confirm(i, env)
      [] kind = "TypeAndEnter" -> type_and_enter(env)

\* The step inside its run function: the run goes on to the next step, or
\* returns False (the step gave False, or raised into the function's own
\* 'except Exception: return False'), or the exception leaves the function
run_step(i, kind, env) ==
    LET o == step_result(i, kind, env)
    IN [continues |-> o.raised = "none" /\ o.returned,
        raised |-> IF o.raised # "none" /\ ~Catches({"Exception"}, o.raised)
                   THEN o.raised ELSE "none"]

----------------------------------------------------------------------------
\* StepSequencer: the two step lists

Step(name, kind, target, value) ==
    [name |-> name, kind |-> kind, target |-> target, value |-> value]

\* Step 9 of run_complete_automation types f"{int(self.revenue):,}"
formatted_revenue(revenue) ==
    IF ParseInt(revenue).ok THEN FormatThousands(ParseInt(revenue).val) ELSE revenue

complete_steps_swapped(c) == <<
    Step("step1", "Click", "first_link", <<>>),
    Step("step2", "Click", "second_button", <<>>),
    Step("step3", "Click", "dropdown_button", <<>>),
    Step("step4", "KeyboardSelect", "active_element", <<>>),
    Step("step5", "ClearAndType", "code_input", c.eri_code),
    Step("step6", "ClickConfirm", "confirm_button", <<>>),
    Step("step8", "TypeAndEnter", "industry_input", c.industry),
    Step("step7", "TypeAndEnter", "location_input", c.location),
    Step("step9", "TypeAndEnter", "revenue_input", formatted_revenue(c.revenue)) >>

\* run_complete_automation, steps 1-9
complete_steps(c) == <<
    Step("step1", "Click", "first_link", <<>>),
    Step("step2", "Click", "second_button", <<>>),
    Step("step3", "Click", "dropdown_button", <<>>),
    Step("step4", "KeyboardSelect", "active_element", <<>>),
    Step("step5", "ClearAndType", "code_input", c.eri_code),
    Step("step6", "ClickConfirm", "confirm_button", <<>>),
    Step("step7", "TypeAndEnter", "location_input", c.location),
    Step("step8", "TypeAndEnter", "industry_input", c.industry),
    Step("step9", "TypeAndEnter", "revenue_input", formatted_revenue(c.revenue)) >>

\* run_subsequent_automation, steps 2-9
subsequent_steps(c) == <<
    Step("step2", "Click", "second_button", <<>>),
    Step("step3", "Click", "dropdown_button", <<>>),
    Step("step4", "KeyboardSelect", "active_element", <<>>),
    Step("step5", "ClearAndType", "code_input", c.eri_code),
    Step("step6", "ClickConfirm", "confirm_button", <<>>),
    Step("step7", "TypeAndEnter", "location_input", c.location),
    Step("step8", "TypeAndEnter", "industry_input", c.industry),
    Step("step9", "TypeAndEnter", "revenue_input", c.revenue) >>

run_steps_always_complete(i, c) == complete_steps(c)

\* The first record runs the complete sequence, every later one the subsequent
run_steps(i, c) == IF i = 1 THEN complete_steps(c) ELSE subsequent_steps(c)

\* An exception raised while a step's arguments are computed: int(self.revenue)
\* in step 9 of run_complete_automation
step_raises(i, c, j) == i = 1 /\ j = Len(complete_steps(c)) /\ ~ParseInt(c.revenue).ok

----------------------------------------------------------------------------
\* save_to_csv

\* writer.writeheader(): the fieldnames
HeaderLine == <<<<"E","R","I"," ","J","o","b"," ","C","o","d","e">>,
               <<"E","R","I"," ","L","o","c","a","t","i","o","n">>,
               <<"R","e","v","e","n","u","e">>,
               <<"I","n","d","u","s","t","r","y">>,
               <<"Y","e","a","r","s"," ","o","f"," ","E","x","p","e","r","i","e","n","c","e">>,
               <<"O","u","t","p","u","t">>,
               <<"E","x","t","r","a","c","t","e","d"," ","V","a","l","u","e">>>>

\* writer.writerow({...}): the cells in fieldnames order
csv_row(data) ==
    <<data.eri_code, data.location, data.revenue, data.industry,
      data.years_experience, StatisticText(data.data_type), data.extracted_value>>

\* What one call writes to the file it opened in append mode
save_output(file, data_list) ==
    (IF file.exists THEN <<>> ELSE <<HeaderLine>>)
    \o [k \in DOMAIN data_list |-> csv_row(data_list[k])]

\* How the file system answers: open() fails, or the file is opened (created
\* if new) and the first 'flushed' lines of the output reach it
SaveOutcomes(file, data_list) ==
    {[opened |-> FALSE, flushed |-> 0]}
    \cup {[opened |-> TRUE, flushed |-> k] : k \in 0..Len(save_output(file, data_list))}

save_to_csv_reraising(file, data_list, out) ==
    LET text == save_output(file, data_list)
        error == IF out.opened /\ out.flushed = Len(text) THEN "none" ELSE "OSError"
    IN IF data_list = <<>>
       THEN [file |-> file, error |-> "none", raised |-> "none", reported |-> FALSE]
       ELSE [file |-> IF out.opened
                      THEN [named |-> TRUE, exists |-> TRUE,
                            lines |-> file.lines \o SubSeq(text, 1, out.flushed)]
                      ELSE [file EXCEPT !.named = TRUE],
             error |-> error,
             raised |-> error,
             reported |-> FALSE]

\* save_to_csv(data_list): the file afterwards, the error met inside the try
\* block, the exception leaving the call and whether the handler printed
save_to_csv(file, data_list, out) ==
    LET text == save_output(file, data_list)
        error == IF out.opened /\ out.flushed = Len(text) THEN "none" ELSE "OSError"
    IN IF data_list = <<>>
       THEN [file |-> file, error |-> "none", raised |-> "none", reported |-> FALSE]
       ELSE [file |-> IF out.opened
                      THEN [named |-> TRUE, exists |-> TRUE,
                            lines |-> file.lines \o SubSeq(text, 1, out.flushed)]
                      ELSE [file EXCEPT !.named = TRUE],
             error |-> error,
             raised |-> IF IsException(error) THEN "none" ELSE error,
             reported |-> error # "none"]

----------------------------------------------------------------------------
\* run_multi_automation

\* What the loop of run_multi_automation does once the run of record idx has
\* returned: a False from the first record ends the batch, a False from a
\* later record is only printed.
after_run_continue_always(i, returned, n) ==
    IF i < n THEN "reset" ELSE "save"

after_run_blocking(i, returned, n) ==
    IF ~returned THEN "blocked"
    ELSE IF i < n THEN "reset" ELSE "save"

after_run(i, returned, n) ==
    IF i = 1 /\ ~returned THEN "finally"
    ELSE IF i < n THEN "reset" ELSE "save"

EndRun(returned, outcome) ==
    /\ runLog' = Append(runLog, [row |-> idx, returned |-> returned, outcome |-> outcome])
    /\ bpc' = after_run(idx, returned, Len(rows))
    /\ idx' = IF after_run(idx, returned, Len(rows)) = "reset" THEN idx + 1 ELSE idx

\* rows = self.read_csv_input(...); if not rows: return
ReadInput ==
    /\ bpc = "start"
    /\ bpc' = IF rows = <<>> THEN "returned" ELSE "login"
    /\ UNCHANGED <<rows, idx, stepNo, cur, performed, runLog, all_data, csvFile, session,
                   logins, resetLog>>
    /\ UNCHANGED loginVars
    /\ UNCHANGED unitVars

\* driver, login_success = login_with_selenium(...); the flag is not read.
\* The call raises either in _build_driver (no browser) or in an unguarded
\* driver.get after the browser was started: the browser then runs, but no
\* reference to it was returned
LoginOutcomes == {"authenticated", "unauthenticated", "raises"}

\* The pair login_with_selenium returns
login_return(outcome) ==
    IF outcome = "authenticated" THEN authenticated_return ELSE unauthenticated_return

session_usable_if_authenticated(r) == r.driver /\ r.auth

\* if driver:
session_usable(r) == r.driver

Acquire(outcome) ==
    /\ bpc = "login"
    /\ logins' = logins + 1
    /\ IF outcome = "raises"
       THEN /\ bpc' = "finally"
            /\ session' \in {"none", "unheld"}
            /\ UNCHANGED <<idx, stepNo, cur, performed>>
       ELSE IF session_usable(login_return(outcome))
       THEN /\ session' = "open"
            /\ cur' = rows[1]
            /\ idx' = 1
            /\ stepNo' = 0
            /\ performed' = <<>>
            /\ bpc' = "steps"
       ELSE /\ bpc' = "finally"
            /\ session' = IF login_return(outcome).driver THEN "unheld" ELSE "none"
            /\ UNCHANGED <<idx, stepNo, cur, performed>>
    /\ UNCHANGED <<rows, runLog, all_data, csvFile, resetLog>>
    /\ UNCHANGED unitVars

AcquireSession ==
    \E outcome \in LoginOutcomes :
        /\ Acquire(outcome)
        /\ UNCHANGED loginVars

\* The same call with the returned pair kept for inspection (login_success is
\* a local of run_multi_automation that no statement reads)
AcquireSessionReturning ==
    \E outcome \in LoginOutcomes :
        /\ Acquire(outcome)
        /\ ret' = IF outcome = "raises" THEN ret ELSE login_return(outcome)
        /\ UNCHANGED <<lpc, page, lastGet, cookiesFile, jar, addCalls, haveCreds, tried,
                       passedAt, saves, ticks, authResult, loadResult>>

\* Head of run_subsequent_automation: take the row's fields, scroll to top,
\* click the body (a failure of the body click is swallowed; a failure of the
\* scroll ends the run before the body click)
ResetPage ==
    /\ bpc = "reset"
    /\ cur' = rows[idx]
    /\ stepNo' = 0
    /\ performed' = <<>>
    /\ \E scrolled \in BOOLEAN, clicked \in BOOLEAN :
         IF scrolled
         THEN /\ resetLog' = Append(resetLog, [row |-> idx, scroll_top |-> TRUE,
                                               body_click |-> "attempted"])
              /\ bpc' = "steps"
              /\ UNCHANGED <<idx, runLog>>
         ELSE /\ UNCHANGED resetLog
              /\ EndRun(FALSE, "reset_failed")
    /\ UNCHANGED <<rows, all_data, csvFile, session, logins>>
    /\ UNCHANGED loginVars
    /\ UNCHANGED unitVars

ExecStepNoAbort ==
    /\ bpc = "steps"
    /\ LET steps == run_steps(idx, cur)
           j == stepNo + 1
       IN IF step_raises(idx, cur, j)
          THEN /\ EndRun(FALSE, "step_failed")
               /\ UNCHANGED <<stepNo, performed>>
          ELSE \E env \in StepEnvs(steps[j].kind) :
                 /\ performed' = Append(performed, [step |-> steps[j],
                                                    ok |-> run_step(idx, steps[j].kind, env).continues])
                 /\ stepNo' = j
                 /\ bpc' = IF j = Len(steps) THEN "extract" ELSE "steps"
                 /\ UNCHANGED <<idx, runLog>>
    /\ UNCHANGED <<rows, cur, all_data, csvFile, session, logins, resetLog>>
    /\ UNCHANGED loginVars
    /\ UNCHANGED unitVars

\* The next step of the current run
ExecStep ==
    /\ bpc = "steps"
    /\ LET steps == run_steps(idx, cur)
           j == stepNo + 1
       IN IF step_raises(idx, cur, j)
          THEN /\ EndRun(FALSE, "step_failed")
               /\ UNCHANGED <<stepNo, performed>>
          ELSE \E env \in StepEnvs(steps[j].kind) :
                 LET ok == run_step(idx, steps[j].kind, env).continues
                 IN /\ performed' = Append(performed, [step |-> steps[j], ok |-> ok])
                    /\ IF ok
                       THEN /\ stepNo' = j
                            /\ bpc' = IF j = Len(steps) THEN "extract" ELSE "steps"
                            /\ UNCHANGED <<idx, runLog>>
                       ELSE /\ EndRun(FALSE, "step_failed")
                            /\ UNCHANGED stepNo
    /\ UNCHANGED <<rows, cur, all_data, csvFile, session, logins, resetLog>>
    /\ UNCHANGED loginVars
    /\ UNCHANGED unitVars

append_result_front(results, data) == <<data>> \o results

\* self.all_data.append(data)
append_result(results, data) == Append(results, data)

has_data_found(d) == ~d.none /\ d.data.extracted_value # NotFound

\* if data:   (a record is truthy, None is not)
has_data(d) == ~d.none

no_data_return_false(i, scrolled) == FALSE

\* What the run function returns when extraction gave None:
\* run_complete_automation scrolls to the top and returns True,
\* run_subsequent_automation returns False
no_data_return(i, scrolled) == IF i = 1 THEN scrolled ELSE FALSE

\* Tail of both run functions: extract, append, scroll to top, return; the
\* driver shows 'view', and the scroll succeeds or raises
ExtractWith(view, scrolled) ==
    /\ bpc = "extract"
    /\ LET d == extract_years_experience_data(cur, view)
       IN IF has_data(d)
          THEN /\ all_data' = append_result(all_data, d.data)
               /\ EndRun(scrolled, "success")
          ELSE /\ UNCHANGED all_data
               /\ EndRun(no_data_return(idx, scrolled), "no_data")
    /\ UNCHANGED <<rows, stepNo, cur, performed, csvFile, session, logins, resetLog>>
    /\ UNCHANGED loginVars

Extract ==
    \E view \in BatchViews, scrolled \in BOOLEAN :
        /\ ExtractWith(view, scrolled)
        /\ UNCHANGED unitVars

\* The same tail with the view, the value extract_years_experience_data
\* returned and the fate of the scroll kept for inspection
ExtractObserved ==
    \E view \in BatchViews, scrolled \in BOOLEAN :
        /\ ExtractWith(view, scrolled)
        /\ resultsView' = view
        /\ LET d == extract_years_experience_data(cur, view)
           IN extraction' = [done |-> TRUE, none |-> d.none, data |-> d.data,
                             reads |-> d.reads, scrolled |-> scrolled]
        /\ UNCHANGED <<user_input, parsed, callVars>>

\* if self.all_data: self.save_to_csv(self.all_data)
SaveResults ==
    /\ bpc = "save"
    /\ IF all_data = <<>>
       THEN UNCHANGED csvFile
       ELSE \E out \in SaveOutcomes(csvFile, all_data) :
              csvFile' = save_to_csv(csvFile, all_data, out).file
    /\ bpc' = "finally"
    /\ UNCHANGED <<rows, idx, stepNo, cur, performed, runLog, all_data, session,
                   logins, resetLog>>
    /\ UNCHANGED loginVars
    /\ UNCHANGED unitVars

\* finally: input(...); if self.driver: self.driver.quit()
CloseSession ==
    /\ bpc = "finally"
    /\ session' = IF session = "open" THEN "closed" ELSE session
    /\ bpc' = "returned"
    /\ UNCHANGED <<rows, idx, stepNo, cur, performed, runLog, all_data, csvFile,
                   logins, resetLog>>
    /\ UNCHANGED loginVars
    /\ UNCHANGED unitVars

LoginIdle ==
    /\ lpc = "idle"
    /\ LoginFresh
    /\ cookiesFile = MissingFile
    /\ haveCreds = FALSE

Init ==
    /\ rows \in SeqsUpTo(RecordPool, MaxRows)
    /\ bpc = "start"
    /\ idx = 0
    /\ stepNo = 0
    /\ cur = NoRecord
    /\ performed = <<>>
    /\ runLog = <<>>
    /\ all_data = <<>>
    /\ csvFile = NoFile
    /\ session = "none"
    /\ logins = 0
    /\ resetLog = <<>>
    /\ UnitIdle
    /\ LoginIdle

Next ==
    \/ ReadInput
    \/ AcquireSession
    \/ ResetPage
    \/ ExecStep
    \/ Extract
    \/ SaveResults
    \/ CloseSession

Spec == Init /\ [][Next]_vars

\* The control thread keeps running: every call of the batch returns and the
\* next statement is executed (each wait is bounded by its timeout). Only the
\* final prompt waits for the operator, so CloseSession has no fairness
SpecLive ==
    /\ Spec
    /\ WF_vars(ReadInput)
    /\ WF_vars(AcquireSession)
    /\ WF_vars(ResetPage)
    /\ WF_vars(ExecStep)
    /\ WF_vars(Extract)
    /\ WF_vars(SaveResults)

\* The operator interrupts the batch between two records (KeyboardInterrupt,
\* the only abort signal the program can receive): the loop tests no flag, no
\* 'except Exception' catches it, the finally block runs and the exception
\* leaves run_multi_automation past the save
Abort ==
    /\ bpc = "reset"
    /\ ~IsException("KeyboardInterrupt")
    /\ bpc' = "finally"
    /\ UNCHANGED <<rows, idx, stepNo, cur, performed, runLog, all_data, csvFile, session,
                   logins, resetLog>>
    /\ UNCHANGED loginVars
    /\ UNCHANGED unitVars

NextAbort ==
    \/ Next
    \/ Abort

SpecAbort == Init /\ [][NextAbort]_vars

\* The batch over short input files, with the pair returned by the login and
\* what the extraction saw and returned kept
MaxSessionRows == 2

InitSession ==
    /\ rows \in SeqsUpTo(RecordPool, MaxSessionRows)
    /\ bpc = "start"
    /\ idx = 0
    /\ stepNo = 0
    /\ cur = NoRecord
    /\ performed = <<>>
    /\ runLog = <<>>
    /\ all_data = <<>>
    /\ csvFile = NoFile
    /\ session = "none"
    /\ logins = 0
    /\ resetLog = <<>>
    /\ UnitIdle
    /\ LoginIdle

NextSession ==
    \/ ReadInput
    \/ AcquireSessionReturning
    \/ ResetPage
    \/ ExecStep
    \/ ExtractObserved
    \/ SaveResults
    \/ CloseSession

SpecSession == InitSession /\ [][NextSession]_vars

----------------------------------------------------------------------------
\* Properties of the batch runner and the step sequencer

Finished == bpc = "returned"
RunOf(m) == {e \in DOMAIN runLog : runLog[e].row = m}

\* C1: for every k in 1..N (k = 1 included), a step failure or an extraction
\* failure while processing record k does not stop the batch: every record
\* after k is still processed.
C1_FailureDoesNotStopBatch ==
    Finished =>
        \A e \in DOMAIN runLog :
            runLog[e].outcome \in {"step_failed", "no_data"} =>
                \A m \in (runLog[e].row + 1)..Len(rows) : RunOf(m) # {}

InputFields(r) ==
    [eri_code |-> r.eri_code, location |-> r.location, revenue |-> r.revenue,
     industry |-> r.industry, data_type |-> r.data_type]

StepFailures == {e \in DOMAIN runLog : runLog[e].outcome = "step_failed"}

\* The input sequence without its k-th record
Without(s, k) == [j \in 1..(Len(s) - 1) |-> IF j < k THEN s[j] ELSE s[j + 1]]

\* C2: when exactly one record k (any k in 1..N) suffers a step failure and no
\* other record fails, the result log at the end of the batch holds exactly
\* the N-1 results of the records other than k, in input order.
C2_OneStepFailureKeepsTheOthers ==
    (/\ Finished
     /\ Cardinality(StepFailures) = 1
     /\ \A e \in DOMAIN runLog : runLog[e].outcome \in {"step_failed", "success"})
    => LET k == runLog[CHOOSE e \in StepFailures : TRUE].row
           others == Without(rows, k)
       IN /\ Len(all_data) = Len(rows) - 1
          /\ \A j \in DOMAIN all_data : InputFields(all_data[j]) = InputFields(others[j])

NineSteps == <<
    <<"Click", "first_link">>, <<"Click", "second_button">>, <<"Click", "dropdown_button">>,
    <<"KeyboardSelect", "active_element">>, <<"ClearAndType", "code_input">>,
    <<"ClickConfirm", "confirm_button">>, <<"TypeAndEnter", "location_input">>,
    <<"TypeAndEnter", "industry_input">>, <<"TypeAndEnter", "revenue_input">> >>

\* C9: run_complete_automation performs first link, second button, dropdown
\* button, keyboard selection, code, confirm button, location, industry,
\* revenue in exactly this order; a step starts only after the one before it
\* succeeded, and extraction starts only after the last step succeeded.
C9_CompleteSequenceOrder ==
    (idx = 1 /\ bpc \in {"steps", "extract", "save", "finally", "returned"}) =>
        /\ Len(performed) <= Len(NineSteps)
        /\ \A j \in DOMAIN performed :
             /\ <<performed[j].step.kind, performed[j].step.target>> = NineSteps[j]
             /\ j < Len(performed) => performed[j].ok
        /\ Len(performed) >= 5 => performed[5].step.value = cur.eri_code
        /\ Len(performed) >= 7 => performed[7].step.value = cur.location
        /\ Len(performed) >= 8 => performed[8].step.value = cur.industry
        /\ (bpc = "extract" \/ (runLog # <<>> /\ runLog[1].outcome \in {"success", "no_data"})) =>
             /\ Len(performed) = Len(NineSteps)
             /\ \A j \in DOMAIN performed : performed[j].ok

C9_Witness ==
    /\ idx = 1
    /\ bpc = "extract"
    /\ Len(performed) = 9
    /\ performed[9].ok

\* C10: for the same record the abbreviated sequence performs exactly the
\* actions of the full sequence minus the initial navigate step: the same
\* step kinds in the same order with the same value entered in each field.
C10_AbbreviatedIsFullMinusNavigate ==
    (idx > 1 /\ bpc = "extract") =>
        [j \in DOMAIN performed |-> performed[j].step] = Tail(complete_steps(cur))

FailedSteps == {j \in DOMAIN performed : ~performed[j].ok}
LastRun == runLog[Len(runLog)]
PerformedSteps == [j \in DOMAIN performed |-> performed[j].step]

\* C11: in both sequence variants the first step that returns false ends the
\* run at once: it is the last step performed, extraction is not entered, no
\* result is appended for the record, and the run returns False to the batch
\* loop.
C11_FirstFalseEndsRun ==
    /\ \A j \in FailedSteps : j = Len(performed)
    /\ FailedSteps # {} =>
         /\ bpc \notin {"steps", "extract"}
         /\ runLog # <<>>
         /\ LastRun.outcome = "step_failed"
         /\ ~LastRun.returned
         /\ LastRun.row = (IF bpc = "reset" THEN idx - 1 ELSE idx)
         /\ IsPrefix(PerformedSteps, run_steps(LastRun.row, rows[LastRun.row]))
    /\ Len(all_data) = Cardinality({e \in DOMAIN runLog : runLog[e].outcome = "success"})
    /\ \A e \in DOMAIN runLog :
         runLog[e].outcome = "step_failed" =>
            Cardinality({k \in DOMAIN all_data : InputFields(all_data[k]) = InputFields(rows[runLog[e].row])})
              <= Cardinality({f \in DOMAIN runLog :
                                /\ runLog[f].outcome = "success"
                                /\ InputFields(rows[runLog[f].row]) = InputFields(rows[runLog[e].row])})

C11_Witness ==
    /\ FailedSteps = {4}
    /\ runLog # <<>>
    /\ LastRun.row = 2
    /\ LastRun.outcome = "step_failed"
    /\ Len(all_data) = 1
    /\ performed[4].step.name = "step5"

\* C12: run_multi_automation calls login_with_selenium once per batch; the
\* full sequence is run for record 1 only; every record from 2 on is run by
\* first resetting the page (scroll to top, body click) and then performing
\* the abbreviated sequence while that one driver is open; records are run
\* in input order, each only after the run of the one before it has ended.
C12_OneSessionFullThenAbbreviated ==
    /\ logins <= 1
    /\ (Finished /\ rows # <<>>) => logins = 1
    /\ \A e \in DOMAIN runLog : runLog[e].row = e
    /\ \A k \in DOMAIN resetLog :
         /\ resetLog[k].row \in 2..Len(rows)
         /\ resetLog[k].scroll_top
         /\ resetLog[k].body_click = "attempted"
         /\ k > 1 => resetLog[k - 1].row < resetLog[k].row
    /\ bpc \in {"steps", "extract", "reset"} => (logins = 1 /\ session = "open")
    /\ bpc \in {"steps", "extract", "reset"} => Len(runLog) = idx - 1
    /\ bpc \in {"steps", "extract"} =>
         /\ cur = rows[idx]
         /\ IsPrefix(PerformedSteps,
                     IF idx = 1 THEN complete_steps(cur) ELSE subsequent_steps(cur))
         /\ performed # <<>> => (performed[1].step.target = "first_link" <=> idx = 1)
         /\ idx = 1 => resetLog = <<>>
         /\ idx > 1 => (resetLog # <<>> /\ resetLog[Len(resetLog)].row = idx)

C12_Witness ==
    /\ bpc = "extract"
    /\ idx = 3
    /\ logins = 1
    /\ Len(resetLog) = 2
    /\ resetLog[2] = [row |-> 3, scroll_top |-> TRUE, body_click |-> "attempted"]
    /\ Len(performed) = 8
    /\ performed[1].step.target = "second_button"

\* The batch was interrupted before record idx started
Aborted == bpc \in {"finally", "returned"} /\ idx >= 2 /\ RunOf(idx) = {}

\* C24: an abort signal raised between two records stops the batch before the
\* next record starts, and the results of the records completed before the
\* abort are in the result file afterwards.
C24_AbortKeepsResults ==
    Aborted =>
        /\ \A e \in DOMAIN runLog : runLog[e].row < idx
        /\ \A k \in DOMAIN all_data :
              \E n \in DOMAIN csvFile.lines : csvFile.lines[n] = csv_row(all_data[k])

\* C27: every browser session started for a batch is closed (driver.quit
\* called, after the last record) on every path: all records succeed, a later
\* record fails, the first record fails, authentication fails, or session
\* acquisition raises after the browser was started; the operator has
\* answered the final prompt once the batch has returned.
C27_SessionClosedOnEveryPath ==
    Finished => session \in {"none", "closed"}

\* The loop over the records is over
LoopDone == bpc \in {"save", "finally", "returned"}

\* C28: for any finite list of N records and any behaviour of the remote
\* page, the batch loop terminates: each record is run at most once and
\* performs at most the nine steps of the sequence and at most two cell reads
\* for each of the ScanLimit - 1 rows scanned; a step that failed (its wait
\* timed out, or any other failure) ends the run of its record, and the batch
\* goes on to the next record or leaves the loop.
C28_BatchLoopTerminates ==
    /\ <>LoopDone
    /\ [](/\ Len(performed) <= Len(NineSteps)
          /\ \A m \in DOMAIN rows : Cardinality(RunOf(m)) <= 1
          /\ bpc = "extract" =>
                \A v \in BatchViews :
                    Len(extract_years_experience_data(cur, v).reads) <= 2 * (ScanLimit - 1))
    /\ [][(bpc = "steps" /\ stepNo' = stepNo)
            => /\ Len(runLog') = Len(runLog) + 1
               /\ bpc' = "reset" \/ LoopDone']_vars

\* Three records, the second failed at a step, and the loop is over with all
\* three run
C28_Witness ==
    /\ bpc = "save"
    /\ Len(rows) = MaxRows
    /\ Len(runLog) = MaxRows
    /\ runLog[2].outcome = "step_failed"
    /\ runLog[3].outcome = "success"

\* The runs that appended a result, in the order they ended
Appended == SelectSeq(runLog, LAMBDA e : e.outcome = "success")

\* The record a result was extracted for
ResultOf(data, record) ==
    /\ data.eri_code = record.eri_code
    /\ data.location = record.location
    /\ data.revenue = record.revenue
    /\ data.industry = record.industry
    /\ data.data_type = record.data_type

\* C23: the in-memory result log all_data only grows: each record's run
\* appends at most one result, results are never removed, reordered or
\* modified after being appended, and in every reachable state all_data is in
\* input-record order.
C23_ResultLogAppendOnlyInOrder ==
    /\ [][all_data' = all_data \/ \E data \in {all_data'[Len(all_data')]} :
                                     all_data' = Append(all_data, data)]_vars
    /\ [](/\ Len(all_data) = Len(Appended)
          /\ \A k \in DOMAIN all_data : ResultOf(all_data[k], rows[Appended[k].row])
          /\ \A j, k \in DOMAIN Appended : j < k => Appended[j].row < Appended[k].row)

\* Three different records, the second failed: the log holds the results of
\* the first and the third, in that order
C23_Witness ==
    /\ Finished
    /\ Len(rows) = 3
    /\ rows[1] # rows[3]
    /\ \E e \in DOMAIN runLog : runLog[e].row = 2 /\ runLog[e].outcome = "step_failed"
    /\ Len(all_data) = 2
    /\ ResultOf(all_data[1], rows[1])
    /\ ResultOf(all_data[2], rows[3])
    /\ ~ResultOf(all_data[1], rows[3])

----------------------------------------------------------------------------
\* Stand-alone calls of extract_years_experience_data

MaxTableRows == 3    \* rows of a results table drawn from TableRows

\* Values the readers deliver for Years of Experience: digits, the CSV
\* sentinels "N/A" and "", and None (parse_multi_input, parse_user_input)
YearsValues == {<<"1","1">>, <<"5">>, NA, <<>>, PyNone}

DataTypes == {"Mean", "75th Percentile", "Median", "25th Percentile", "All Incumbent Average"}

ExtractRecords ==
    {[eri_code |-> <<"4","0","0","6">>, location |-> <<"D","a","l","l","a","s",","," ","T","e","x","a","s">>,
      revenue |-> <<"5","6","5","0","0","0","0","0","0">>, industry |-> <<"R","e","t","a","i","l">>,
      years_experience |-> y, data_type |-> d] : y \in YearsValues, d \in DataTypes}

TableRow(y, v4, v5) == [years |-> y, td4 |-> v4, td5 |-> v5]

TableRows == {
    TableRow(TextCell(<<"5">>), TextCell(<<"3","0","0">>), TextCell(<<"4","0","0">>)),
    TableRow(TextCell(<<"1","1">>), TextCell(<<"3","1","0">>), TextCell(<<"4","2","0">>)),
    TableRow(TextCell(<<"1","1">>), TextCell(<<"1","5","0">>), TextCell(<<"2","6","0">>)),
    TableRow(TextCell(<<"1","1">>), StaleCell, AbsentCell),
    TableRow(StaleCell, TextCell(<<"7","0","0">>), TextCell(<<"8","0","0">>)),
    TableRow(AbsentCell, AbsentCell, AbsentCell) }

\* n rows whose years never match, then the given rows
FillerRow == TableRow(TextCell(<<"0">>), TextCell(<<"1","0","0">>), TextCell(<<"2","0","0">>))
Filler(n) == [k \in 1..n |-> FillerRow]
MatchRow == TableRow(TextCell(<<"1","1">>), TextCell(<<"3","1","0">>), TextCell(<<"4","2","0">>))

\* Tables reaching the scan bound: a match in the last row scanned, a match in
\* the first row not scanned, and no match at all
LongTables == {Filler(ScanLimit - 2) \o <<MatchRow>>,
               Filler(ScanLimit - 1) \o <<MatchRow, MatchRow>>,
               Filler(ScanLimit + 1)}

ExtractViews ==
    {[summary |-> sm, table |-> t] :
        sm \in {TextCell(<<"9","8",",","0","0","0">>), StaleCell},
        t \in SeqsUpTo(TableRows, MaxTableRows) \cup LongTables}

InitExtract ==
    /\ cur \in ExtractRecords
    /\ resultsView \in ExtractViews
    /\ extraction = NoExtraction
    /\ user_input = <<>>
    /\ parsed = NoParse
    /\ CallIdle
    /\ rows = <<>>
    /\ bpc = "idle"
    /\ idx = 0
    /\ stepNo = 0
    /\ performed = <<>>
    /\ runLog = <<>>
    /\ all_data = <<>>
    /\ csvFile = NoFile
    /\ session = "open"
    /\ logins = 0
    /\ resetLog = <<>>
    /\ LoginIdle

\* data = self.extract_years_experience_data()
ExtractData ==
    /\ ~extraction.done
    /\ LET d == extract_years_experience_data(cur, resultsView)
       IN extraction' = [done |-> TRUE, none |-> d.none, data |-> d.data, reads |-> d.reads]
    /\ UNCHANGED <<resultsView, user_input, parsed, callVars>>
    /\ UNCHANGED batchVars
    /\ UNCHANGED loginVars

SpecExtract == InitExtract /\ [][ExtractData]_vars

----------------------------------------------------------------------------
\* Properties of the result extractor

\* The call scanned the table: a table statistic the row loop handles and a
\* years value that int() accepts
ScanRan ==
    /\ extraction.done
    /\ cur.data_type \in {"Mean", "75th Percentile"}
    /\ cur.years_experience # PyNone
    /\ ParseInt(cur.years_experience).ok

TargetKey == cur.years_experience
Table == resultsView.table

\* Rows whose first column equals the target key
KeyRows == {r \in DOMAIN Table : Table[r].years = TextCell(TargetKey)}

\* The first row that is missing: a row whose first cell does not exist, at
\* the latest the one after the last row of the table
FirstMissing ==
    CHOOSE r \in 1..(Len(Table) + 1) :
        /\ (r = Len(Table) + 1 \/ Table[r].years = AbsentCell)
        /\ \A q \in 1..(r - 1) : Table[q].years # AbsentCell

\* Rows the bounded scan can reach
Scanned == {r \in DOMAIN Table : r < FirstMissing /\ r < ScanLimit}

Least(S) == CHOOSE r \in S : \A q \in S : r <= q
RowsRead == {extraction.reads[k][1] : k \in DOMAIN extraction.reads}

\* The column of the claim: 5 for 75th Percentile, 4 for Mean and the others
ClaimColumn(data_type) == IF data_type = "75th Percentile" THEN "td5" ELSE "td4"

\* C13: the row scan is first-match: when two or more rows of the table have
\* a first column equal to the target key, the scan returns the value read
\* from the earliest of them and reads no row after it (the earliest such row
\* being one the scan reaches and whose value cell can be read).
C13_FirstMatchWins ==
    (/\ ScanRan
     /\ Cardinality(KeyRows) >= 2
     /\ Least(KeyRows) \in Scanned
     /\ Table[Least(KeyRows)][ClaimColumn(cur.data_type)].state = "text")
    => /\ ~extraction.none
       /\ extraction.data.extracted_value = Table[Least(KeyRows)][ClaimColumn(cur.data_type)].text
       /\ \A r \in RowsRead : r <= Least(KeyRows)

C13_Witness ==
    /\ ScanRan
    /\ cur.data_type = "Mean"
    /\ Len(Table) = 3
    /\ KeyRows = {2, 3}
    /\ Table[2].td4 = TextCell(<<"3","1","0">>)
    /\ Table[3].td4 = TextCell(<<"1","5","0">>)
    /\ extraction.data.extracted_value = <<"3","1","0">>
    /\ RowsRead = {1, 2}

\* C14: once the matching row is found the extractor reads column 4 for
\* Mean, column 5 for 75th Percentile and column 4 for every other table
\* statistic (Median, 25th Percentile); rows (5,100,200,300,400),
\* (11,150,260,310,420) with 75th Percentile and years 11 give "420".
C14_ColumnByStatistic ==
    (/\ extraction.done
     /\ cur.data_type # "All Incumbent Average"
     /\ cur.years_experience # PyNone
     /\ ParseInt(cur.years_experience).ok
     /\ KeyRows # {}
     /\ Least(KeyRows) \in Scanned
     /\ Table[Least(KeyRows)][ClaimColumn(cur.data_type)].state = "text")
    => /\ ~extraction.none
       /\ extraction.data.extracted_value = Table[Least(KeyRows)][ClaimColumn(cur.data_type)].text

\* Rows the scan takes for a match: key equal and value cell readable
Hits == {r \in Scanned : r \in KeyRows /\ Table[r][ClaimColumn(cur.data_type)].state = "text"}

\* C15: when the scan reaches a missing row or exhausts its bound without a
\* match, extraction does not raise: it returns a record for the input with
\* the value "Not found"; no row after the first missing row is read, and no
\* row at or beyond the bound.
C15_NoMatchGivesNotFound ==
    ScanRan =>
        /\ \A r \in RowsRead : r <= FirstMissing /\ r < ScanLimit
        /\ Hits = {} =>
             /\ ~extraction.none
             /\ extraction.data.extracted_value = NotFound
             /\ InputFields(extraction.data) = InputFields(cur)

C15_Witness ==
    /\ ScanRan
    /\ Len(Table) = 3
    /\ FirstMissing = 2
    /\ KeyRows = {3}
    /\ Table[3].td5.state = "text"
    /\ cur.data_type = "75th Percentile"
    /\ extraction.data.extracted_value = NotFound
    /\ RowsRead = {1, 2}

AbsentYears == {PyNone, <<>>, NA}

\* C16: for every statistic other than All Incumbent Average a record whose
\* years of experience is absent (None, or the empty or "N/A" value of the
\* tabular reader) yields a result record with the value "Not found"; no
\* exception ends extraction without a record.
C16_AbsentYearsGiveNotFound ==
    (/\ extraction.done
     /\ cur.data_type # "All Incumbent Average"
     /\ cur.years_experience \in AbsentYears)
    => /\ ~extraction.none
       /\ extraction.data.extracted_value = NotFound
       /\ InputFields(extraction.data) = InputFields(cur)

\* A row on which a cell read fails: the years cell cannot be read although
\* it exists, or the key matches and the value cell cannot be read
FailedRows ==
    {r \in Scanned :
        \/ Table[r].years = StaleCell
        \/ (r \in KeyRows /\ Table[r][ClaimColumn(cur.data_type)].state # "text")}

\* C17: a row on which a cell read fails is a miss and the scan goes on with
\* the next row: the row after it is read as long as the bound allows, and
\* the value returned is that of the first row whose key matches and whose
\* value cell can be read, also when that row comes after a matching row
\* with an unreadable value cell.
C17_CellFailureIsAMiss ==
    ScanRan =>
        /\ ~extraction.none
        /\ \A r \in FailedRows :
             ((\A h \in Hits : r < h) /\ r + 1 < ScanLimit) => (r + 1) \in RowsRead
        /\ extraction.data.extracted_value =
             IF Hits = {} THEN NotFound
             ELSE Table[Least(Hits)][ClaimColumn(cur.data_type)].text

C17_Witness ==
    /\ ScanRan
    /\ cur.data_type = "75th Percentile"
    /\ Len(Table) = 3
    /\ Table[1].years = StaleCell
    /\ KeyRows = {2, 3}
    /\ Table[2].td5 = AbsentCell
    /\ extraction.data.extracted_value = <<"2","6","0">>
    /\ RowsRead = {1, 2, 3}

----------------------------------------------------------------------------
\* parse_user_input

\* s.split(sep, 1)[0]: what precedes the first occurrence of sep
BeforeFirst(s, sep) ==
    SubSeq(s, 1, Len(s) - Len(AfterFirst(s, sep)) - Len(sep))

NoDataType == "None"

\* The attributes as __init__ leaves them
FreshFields == [eri_code |-> PyNone, location |-> PyNone, revenue |-> PyNone,
                industry |-> PyNone, years_experience |-> PyNone, data_type |-> NoDataType]

\* Position of the first comma of a text that has one
FirstComma(s) == CHOOSE i \in DOMAIN s : s[i] = "," /\ \A j \in 1..(i - 1) : s[j] # ","

RECURSIVE split_parts_every_comma(_, _, _)
split_parts_every_comma(input, parts, current_part) ==
    IF ~Contains(input, <<",">>)
    THEN IF Strip(current_part \o input, " ") # <<>>
         THEN Append(parts, Strip(current_part \o input, " ")) ELSE parts
    ELSE LET i == FirstComma(input)
             part == current_part \o SubSeq(input, 1, i - 1)
             rest == SubSeq(input, i + 1, Len(input))
         IN IF Strip(part, " ") # <<>>
            THEN split_parts_every_comma(rest, Append(parts, Strip(part, " ")), <<>>)
            ELSE split_parts_every_comma(rest, parts, part)

\* The character loop, taken one comma at a time (every other character is
\* appended to current_part): a comma is kept while the current part holds
\* 'Dallas' and not yet 'Texas'; every other comma ends the part (in_location
\* is never set); a blank part is neither stored nor cleared
RECURSIVE split_parts(_, _, _)
split_parts(input, parts, current_part) ==
    IF ~Contains(input, <<",">>)
    THEN IF Strip(current_part \o input, " ") # <<>>
         THEN Append(parts, Strip(current_part \o input, " ")) ELSE parts
    ELSE LET i == FirstComma(input)
             part == current_part \o SubSeq(input, 1, i - 1)
             rest == SubSeq(input, i + 1, Len(input))
         IN IF Contains(part, <<"D","a","l","l","a","s">>) /\ ~Contains(part, <<"T","e","x","a","s">>)
            THEN split_parts(rest, parts, Append(part, ","))
            ELSE IF Strip(part, " ") # <<>>
            THEN split_parts(rest, Append(parts, Strip(part, " ")), <<>>)
            ELSE split_parts(rest, parts, part)

\* One part: Key=Value sets the attribute of a known key, a bare statistic
\* token sets data_type, anything else is ignored
apply_part(fields, part) ==
    IF Contains(part, <<"=">>)
    THEN LET key == Strip(BeforeFirst(part, <<"=">>), " ")
             value == Strip(AfterFirst(part, <<"=">>), " ")
         IN IF key = <<"E","R","I"," ","C","o","d","e">> THEN [fields EXCEPT !.eri_code = value]
            ELSE IF key = <<"E","R","I"," ","L","o","c","a","t","i","o","n">> THEN [fields EXCEPT !.location = value]
            ELSE IF key = <<"R","e","v","e","n","u","e">> THEN [fields EXCEPT !.revenue = value]
            ELSE IF key = <<"I","n","d","u","s","t","r","y">> THEN [fields EXCEPT !.industry = value]
            ELSE IF key = <<"Y","e","a","r","s"," ","o","f"," ","E","x","p","e","r","i","e","n","c","e">> THEN [fields EXCEPT !.years_experience = value]
            ELSE fields
    ELSE IF \E n \in ParseTokens : TokenText(n) = part
    THEN [fields EXCEPT !.data_type = CHOOSE n \in ParseTokens : TokenText(n) = part]
    ELSE fields

RECURSIVE apply_parts(_, _)
apply_parts(fields, parts) ==
    IF parts = <<>> THEN fields
    ELSE apply_parts(apply_part(fields, Head(parts)), Tail(parts))

\* parse_user_input on a str: nothing in the try block raises
parse_user_input(input, fields) ==
    [returned |-> TRUE, fields |-> apply_parts(fields, split_parts(input, <<>>, <<>>))]

\* Strings of the input grammar: Key=Value pairs joined by ", " and one
\* statistic token
Pair(key, value) == IF value = PyNone THEN <<>> ELSE <<key \o <<"=">> \o value>>

RECURSIVE Join(_)
Join(items) ==
    IF items = <<>> THEN <<>>
    ELSE IF Len(items) = 1 THEN items[1]
    ELSE items[1] \o <<",", " ">> \o Join(Tail(items))

Serialize(f) ==
    Join(Pair(<<"E","R","I"," ","C","o","d","e">>, f.eri_code)
         \o Pair(<<"E","R","I"," ","L","o","c","a","t","i","o","n">>, f.location)
         \o Pair(<<"R","e","v","e","n","u","e">>, f.revenue)
         \o Pair(<<"I","n","d","u","s","t","r","y">>, f.industry)
         \o Pair(<<"Y","e","a","r","s"," ","o","f"," ","E","x","p","e","r","i","e","n","c","e">>, f.years_experience)
         \o (IF f.data_type = NoDataType THEN <<>> ELSE <<TokenText(f.data_type)>>))

GrammarFields ==
    [eri_code : {PyNone, <<"4","0","0","6">>},
     location : {PyNone, <<"D","a","l","l","a","s",","," ","T","e","x","a","s">>, <<"A","u","s","t","i","n",","," ","T","e","x","a","s">>, <<"D","a","l","l","a","s",","," ","G","e","o","r","g","i","a">>},
     revenue : {PyNone, <<"5","6","5","0","0","0","0","0","0">>},
     industry : {PyNone, <<"A","l","l"," ","I","n","d","u","s","t","r","i","e","s"," ","-"," ","D","i","v","e","r","s","i","f","i","e","d">>},
     years_experience : {PyNone, <<"1","1">>},
     data_type : ParseTokens]

\* The hardcoded input of V0.py's main
ExampleInput == <<"E","R","I"," ","C","o","d","e","=","4","0","0","6",","," ","E","R","I"," ","L","o","c","a","t","i","o","n","=","D","a","l","l","a","s",","," ","T","e","x","a","s",","," ","R","e","v","e","n","u","e","=","5","6","5","0","0","0","0","0","0",","," ","I","n","d","u","s","t","r","y","=","A","l","l"," ","I","n","d","u","s","t","r","i","e","s"," ","-"," ","D","i","v","e","r","s","i","f","i","e","d",","," ","Y","e","a","r","s"," ","o","f"," ","E","x","p","e","r","i","e","n","c","e","=","1","1",","," ","7","5","t","h"," ","P","e","r","c","e","n","t","i","l","e">>

InitParse ==
    /\ user_input \in {Serialize(f) : f \in GrammarFields} \cup {ExampleInput}
    /\ cur = FreshFields
    /\ parsed = NoParse
    /\ resultsView = NoView
    /\ extraction = NoExtraction
    /\ CallIdle
    /\ rows = <<>>
    /\ bpc = "idle"
    /\ idx = 0
    /\ stepNo = 0
    /\ performed = <<>>
    /\ runLog = <<>>
    /\ all_data = <<>>
    /\ csvFile = NoFile
    /\ session = "none"
    /\ logins = 0
    /\ resetLog = <<>>
    /\ LoginIdle

\* automation.parse_user_input(user_input)
ParseUserInput ==
    /\ ~parsed.done
    /\ LET r == parse_user_input(user_input, cur)
       IN /\ cur' = r.fields
          /\ parsed' = [done |-> TRUE, returned |-> r.returned]
    /\ UNCHANGED <<rows, bpc, idx, stepNo, performed, runLog, all_data, csvFile, session,
                   logins, resetLog>>
    /\ UNCHANGED <<resultsView, extraction, user_input, callVars>>
    /\ UNCHANGED loginVars

SpecParse == InitParse /\ [][ParseUserInput]_vars

----------------------------------------------------------------------------
\* Properties of parse_user_input

\* The field sets of the grammar that the input string was written from
Written == {f \in GrammarFields : Serialize(f) = user_input}

\* C18: parse_user_input keeps the comma inside any two-part location value
\* 'City, State': the parsed location is the whole 'City, State' string and
\* the fields after it (Revenue, Industry, Years of Experience, statistic)
\* are parsed as separate fields.
C18_LocationCommaKept ==
    parsed.done =>
        \A f \in Written :
            f.location # PyNone =>
                /\ cur.location = f.location
                /\ cur.revenue = f.revenue
                /\ cur.industry = f.industry
                /\ cur.years_experience = f.years_experience
                /\ cur.data_type = f.data_type

\* C19: parse_user_input on 'ERI Code=4006, ERI Location=Dallas, Texas,
\* Revenue=565000000, Industry=All Industries - Diversified, Years of
\* Experience=11, 75th Percentile' sets code 4006, location 'Dallas, Texas',
\* revenue 565000000, industry 'All Industries - Diversified', years 11 and
\* statistic '75th Percentile'.
C19_ExampleParse ==
    (parsed.done /\ user_input = ExampleInput) =>
        /\ parsed.returned
        /\ cur = [eri_code |-> <<"4","0","0","6">>,
                  location |-> <<"D","a","l","l","a","s",","," ","T","e","x","a","s">>,
                  revenue |-> <<"5","6","5","0","0","0","0","0","0">>,
                  industry |-> <<"A","l","l"," ","I","n","d","u","s","t","r","i","e","s"," ","-"," ","D","i","v","e","r","s","i","f","i","e","d">>,
                  years_experience |-> <<"1","1">>,
                  data_type |-> "75th Percentile"]

C19_Witness ==
    /\ parsed.done
    /\ user_input = ExampleInput
    /\ cur.location = <<"D","a","l","l","a","s",","," ","T","e","x","a","s">>
    /\ cur.data_type = "75th Percentile"

Present(f) == {k \in {"eri_code", "location", "revenue", "industry", "years_experience"} :
                 f[k] # PyNone}

\* C20: for every string of the grammar parse_user_input returns without
\* error, sets exactly the fields present in the input and exactly one
\* statistic, and serializing the parsed fields back into the grammar and
\* parsing again yields the same fields.
C20_TotalExactRoundTrip ==
    parsed.done =>
        /\ parsed.returned
        /\ \A f \in Written : Present(cur) = Present(f)
        /\ cur.data_type \in ParseTokens
        /\ parse_user_input(Serialize(cur), FreshFields).fields = cur

----------------------------------------------------------------------------
\* Tabular input: parse_multi_input (tab-separated text) and read_csv_input
\* (CSV file). A line is the sequence of its cells, as line.split('\t') and
\* csv.DictReader deliver them.

MaxLines == 2      \* lines of a tabular input drawn from SourceLines

\* s.replace(ch, '')
Remove(s, ch) == SelectSeq(s, LAMBDA c : c # ch)

\* The statistic a cell text names; the text is kept by the code as it is
data_type_of(text) ==
    IF \E n \in DataTypes : StatisticText(n) = text
    THEN CHOOSE n \in DataTypes : StatisticText(n) = text
    ELSE "Other"

\* parse_multi_input: blank lines and lines of fewer than six parts are
\* skipped; every part is stripped
RECURSIVE parse_multi_input(_)
parse_multi_input(lines) ==
    IF lines = <<>> THEN <<>>
    ELSE LET parts == [k \in DOMAIN Head(lines) |-> Strip(Head(lines)[k], " ")]
             rest == parse_multi_input(Tail(lines))
         IN IF (\A k \in DOMAIN parts : parts[k] = <<>>) \/ Len(parts) < 6
            THEN rest
            ELSE << [eri_code |-> parts[1],
                     location |-> parts[2],
                     revenue |-> Remove(parts[3], ","),
                     industry |-> parts[4],
                     years_experience |-> IF parts[5] = NA THEN PyNone ELSE parts[5],
                     data_type |-> data_type_of(parts[6])] >> \o rest

\* read_csv_input, the rows after the header: DictReader skips an empty line;
\* a row short of a column holds None there, None.strip() raises and the
\* handler returns the rows read so far
RECURSIVE read_csv_rows(_)
read_csv_rows(lines) ==
    IF lines = <<>> THEN <<>>
    ELSE LET row == Head(lines)
         IN IF row = <<>> THEN read_csv_rows(Tail(lines))
            ELSE IF Len(row) < 6 THEN <<>>
            ELSE << [eri_code |-> Strip(row[1], " "),
                     location |-> Strip(row[2], " "),
                     revenue |-> Strip(row[3], " "),
                     industry |-> Strip(row[4], " "),
                     years_experience |-> Strip(row[5], " "),
                     data_type |-> data_type_of(Strip(row[6], " "))] >>
                 \o read_csv_rows(Tail(lines))

\* read_csv_input: a file that cannot be opened gives no rows
read_csv_input(found, lines) == IF found THEN read_csv_rows(lines) ELSE <<>>

SourceLines == {
    <<<<"4","0","0","6">>, <<"D","a","l","l","a","s",","," ","T","e","x","a","s">>, <<"5","6","5",",","0","0","0",",","0","0","0">>, <<"A","l","l"," ","I","n","d","u","s","t","r","i","e","s"," ","-"," ","D","i","v","e","r","s","i","f","i","e","d">>, <<"1","1">>, <<"7","5","t","h"," ","P","e","r","c","e","n","t","i","l","e">>>>,
    <<<<" ","1","2","3","4"," ">>, <<"A","u","s","t","i","n",","," ","T","e","x","a","s">>, <<" ","9","5","0"," ">>, <<"R","e","t","a","i","l">>, <<"5">>, <<"M","e","a","n">>>>,
    <<<<"2","0","0","1">>, <<"D","a","l","l","a","s",","," ","T","e","x","a","s">>, <<"1",",","2","0","0">>, <<"R","e","t","a","i","l">>, <<"N","/","A">>, <<"A","l","l"," ","I","n","c","u","m","b","e","n","t"," ","A","v","e","r","a","g","e">>>>,
    <<<<"4","0","0","6">>, <<"A","u","s","t","i","n",","," ","T","e","x","a","s">>, <<"1","2","0","0">>, <<"A","l","l"," ","I","n","d","u","s","t","r","i","e","s"," ","-"," ","D","i","v","e","r","s","i","f","i","e","d">>, <<"N","/","A">>, <<"M","e","a","n">>>>,
    <<<<"4","0","0","6">>, <<"D","a","l","l","a","s",","," ","T","e","x","a","s">>>>,
    <<>> }

InitIngest ==
    /\ source \in SeqsUpTo(SourceLines, MaxLines)
    /\ ingested = NoIngest
    /\ saveCalls = <<>>
    /\ uiCall = NoCall
    /\ uiResult = NoResult
    /\ SheetIdle
    /\ resultsView = NoView
    /\ extraction = NoExtraction
    /\ user_input = <<>>
    /\ parsed = NoParse
    /\ BatchIdle
    /\ LoginIdle

\* rows = automation.parse_multi_input(input_data)
ParseMultiInput ==
    /\ ~ingested.done
    /\ ingested' = [done |-> TRUE, path |-> "parse_multi_input",
                    rows |-> parse_multi_input(source)]
    /\ UNCHANGED <<source, saveCalls, uiCall, uiResult, sheetVars>>
    /\ UNCHANGED <<resultsView, extraction, user_input, parsed>>
    /\ UNCHANGED batchVars
    /\ UNCHANGED loginVars

\* rows = self.read_csv_input(csv_file_path)
ReadCsvInput ==
    /\ ~ingested.done
    /\ \E found \in BOOLEAN :
         ingested' = [done |-> TRUE, path |-> "read_csv_input",
                      rows |-> read_csv_input(found, source)]
    /\ UNCHANGED <<source, saveCalls, uiCall, uiResult, sheetVars>>
    /\ UNCHANGED <<resultsView, extraction, user_input, parsed>>
    /\ UNCHANGED batchVars
    /\ UNCHANGED loginVars

NextIngest ==
    \/ ParseMultiInput
    \/ ReadCsvInput

SpecIngest == InitIngest /\ [][NextIngest]_vars

----------------------------------------------------------------------------
\* Properties of the tabular readers

\* C21: both tabular ingest paths (parse_multi_input for tab-separated text
\* and read_csv_input for a CSV file) deliver every record's revenue with its
\* thousands separators removed: no delivered revenue holds a ','.
C21_RevenueSeparatorsStripped ==
    ingested.done =>
        \A k \in DOMAIN ingested.rows :
            \A i \in DOMAIN ingested.rows[k].revenue : ingested.rows[k].revenue[i] # ","

----------------------------------------------------------------------------
\* Repeated save_to_csv calls on one ERICompleteAutomation object

MaxResults == 2    \* results appended to all_data
MaxSaves == 3      \* save_to_csv calls made on the object

\* Results as the run functions append them
ResultPool ==
    {result_record(c, c.years_experience, v) :
        c \in {r \in RecordPool : r.data_type = "Mean"},
        v \in {<<"3","1","0">>}}

InitSave ==
    /\ all_data = <<>>
    /\ csvFile = NoFile
    /\ saveCalls = <<>>
    /\ rows = <<>>
    /\ bpc = "idle"
    /\ idx = 0
    /\ stepNo = 0
    /\ cur = NoRecord
    /\ performed = <<>>
    /\ runLog = <<>>
    /\ session = "none"
    /\ logins = 0
    /\ resetLog = <<>>
    /\ source = <<>>
    /\ ingested = NoIngest
    /\ uiCall = NoCall
    /\ uiResult = NoResult
    /\ SheetIdle
    /\ resultsView = NoView
    /\ extraction = NoExtraction
    /\ user_input = <<>>
    /\ parsed = NoParse
    /\ LoginIdle

\* self.all_data.append(data)
AppendResult ==
    /\ Len(all_data) < MaxResults
    /\ \E data \in ResultPool : all_data' = append_result(all_data, data)
    /\ UNCHANGED <<csvFile, saveCalls>>
    /\ UNCHANGED <<rows, bpc, idx, stepNo, cur, performed, runLog, session, logins, resetLog>>
    /\ UNCHANGED <<source, ingested, uiCall, uiResult, sheetVars>>
    /\ UNCHANGED <<resultsView, extraction, user_input, parsed>>
    /\ UNCHANGED loginVars

\* self.save_to_csv(self.all_data), or save_to_csv of one result, which the
\* call wraps into a list
SaveToCsv ==
    /\ Len(saveCalls) < MaxSaves
    /\ \E data_list \in {all_data} \cup {<<all_data[k]>> : k \in DOMAIN all_data} :
         \E out \in SaveOutcomes(csvFile, data_list) :
            LET r == save_to_csv(csvFile, data_list, out)
            IN /\ csvFile' = r.file
               /\ saveCalls' = Append(saveCalls, [rows |-> Len(data_list), error |-> r.error,
                                                  raised |-> r.raised, reported |-> r.reported])
    /\ UNCHANGED all_data
    /\ UNCHANGED <<rows, bpc, idx, stepNo, cur, performed, runLog, session, logins, resetLog>>
    /\ UNCHANGED <<source, ingested, uiCall, uiResult, sheetVars>>
    /\ UNCHANGED <<resultsView, extraction, user_input, parsed>>
    /\ UNCHANGED loginVars

NextSave ==
    \/ AppendResult
    \/ SaveToCsv

SpecSave == InitSave /\ [][NextSave]_vars

----------------------------------------------------------------------------
\* Properties of the result file

HeaderRows == {k \in DOMAIN csvFile.lines : csvFile.lines[k] = HeaderLine}

\* C22: across any sequence of save_to_csv calls on one object, the result
\* file contains exactly one header row, as its first line, and each call only
\* appends rows after the rows already present.
C22_OneHeaderAppendOnly ==
    /\ [](csvFile.lines # <<>> => HeaderRows = {1})
    /\ [][IsPrefix(csvFile.lines, csvFile'.lines)]_vars

FailedSaves == {k \in DOMAIN saveCalls : saveCalls[k].error # "none"}

\* C25: if writing the result file fails, save_to_csv does not raise, reports
\* the error, and leaves the in-memory result list all_data unchanged so that
\* it can be flushed later.
C25_FailedSaveKeepsData ==
    [][(Len(saveCalls') = Len(saveCalls) + 1 /\ Len(saveCalls') \in FailedSaves')
         => /\ saveCalls'[Len(saveCalls')].raised = "none"
            /\ saveCalls'[Len(saveCalls')].reported
            /\ all_data' = all_data]_vars

\* A failed save of two results that wrote nothing, and a later save that
\* flushed both
C25_Witness ==
    /\ Len(all_data) = 2
    /\ Len(saveCalls) = 2
    /\ FailedSaves = {1}
    /\ saveCalls[1].reported
    /\ saveCalls[2].rows = 2
    /\ csvFile.lines = <<HeaderLine, csv_row(all_data[1]), csv_row(all_data[2])>>

----------------------------------------------------------------------------
\* Stand-alone calls of the InteractionExecutor helpers and inline steps

StepKinds == {"Click", "KeyboardSelect", "ClearAndType", "ClickConfirm", "TypeAndEnter"}

\* A step of the run of record 1 (run_complete_automation) or of a later
\* record (run_subsequent_automation), and V0.py's wait_and_click
UiCall(k, i, e, text, current_value) ==
    [kind |-> k, run |-> i, env |-> e, text |-> text, current_value |-> current_value]

\* Values typed into a field, and what get_attribute('value') gives after
\* select-all and delete when content remains
TypedTexts == {<<>>, <<"1","1">>, <<"T","X",","," ","U","S">>}
LeftValues == {<<"9">>, <<"o","l","d">>}

UiCalls ==
    {UiCall("Click", i, e, <<>>, <<>>) : i \in 1..2, e \in ClickEnvs}
    \cup {UiCall("ClickConfirm", i, e, <<>>, <<>>) : i \in 1..2, e \in ClickEnvs}
    \cup {UiCall("KeyboardSelect", i, e, <<>>, <<>>) : i \in 1..2, e \in KeyEnvs}
    \cup {UiCall("ClearAndType", i, e, <<>>, <<>>) : i \in 1..2, e \in CodeEnvs}
    \cup {UiCall("TypeAndEnter", i, e, t, <<>>) :
             i \in 1..2, e \in {x \in TypeEnvs : x.typing # "content_remains"}, t \in TypedTexts}
    \cup {UiCall("TypeAndEnter", i, e, t, v) :
             i \in 1..2, e \in {x \in TypeEnvs : x.typing = "content_remains"},
             t \in TypedTexts, v \in LeftValues}
    \cup {UiCall("V0.Click", 1, e, <<>>, <<>>) : e \in ScrolledClickEnvs}

InitExec ==
    /\ uiCall \in UiCalls
    /\ uiResult = NoResult
    /\ SheetIdle
    /\ source = <<>>
    /\ ingested = NoIngest
    /\ saveCalls = <<>>
    /\ resultsView = NoView
    /\ extraction = NoExtraction
    /\ user_input = <<>>
    /\ parsed = NoParse
    /\ BatchIdle
    /\ LoginIdle

\* if not self.wait_and_click(...): return False   (and the other steps alike)
CallHelper ==
    /\ ~uiResult.done
    /\ uiResult' =
         IF uiCall.kind = "V0.Click"
         THEN [done |-> TRUE, step |-> wait_and_click_V0(uiCall.env),
               run |-> [continues |-> wait_and_click_V0(uiCall.env).returned, raised |-> "none"],
               keys |-> <<>>]
         ELSE [done |-> TRUE, step |-> step_result(uiCall.run, uiCall.kind, uiCall.env),
               run |-> run_step(uiCall.run, uiCall.kind, uiCall.env),
               keys |-> send_keys(step_result(uiCall.run, uiCall.kind, uiCall.env).calls,
                                  uiCall.current_value, uiCall.text)]
    /\ UNCHANGED <<uiCall, source, ingested, saveCalls, sheetVars>>
    /\ UNCHANGED <<resultsView, extraction, user_input, parsed>>
    /\ UNCHANGED batchVars
    /\ UNCHANGED loginVars

SpecExec == InitExec /\ [][CallHelper]_vars

----------------------------------------------------------------------------
\* Properties of the InteractionExecutor

\* C26: wait_and_click, dropdown_keyboard_selection and type_and_enter never
\* raise for any driver failure (timeout, not interactable, stale or missing
\* element): each returns False, and no driver failure inside one record's
\* processing propagates out of run_complete_automation or
\* run_subsequent_automation.
C26_DriverFailuresGiveFalse ==
    (uiResult.done /\ uiCall.kind \in StepKinds) =>
        /\ uiCall.kind \in {"Click", "KeyboardSelect", "TypeAndEnter"} =>
              /\ uiResult.step.raised = "none"
              /\ uiResult.step.failure # "none" => ~uiResult.step.returned
        /\ uiResult.run.raised = "none"
        /\ uiResult.step.failure # "none" => ~uiResult.run.continues

\* The confirm click of the first record: the click raises a stale-element
\* error, the JavaScript click raises too, the inline handler (TimeoutException
\* only) lets it pass and run_complete_automation returns False
C26_Witness ==
    /\ uiResult.done
    /\ uiCall.kind = "ClickConfirm"
    /\ uiCall.run = 1
    /\ uiCall.env.click = "StaleElementReferenceException"
    /\ uiResult.step.raised = "JavascriptException"
    /\ uiResult.run.raised = "none"
    /\ ~uiResult.run.continues

\* Positions of a driver call in the calls the helper made
CallsOf(name) == {k \in DOMAIN uiResult.step.calls : uiResult.step.calls[k] = name}

ClickCall == uiResult.done /\ uiCall.kind \in {"Click", "V0.Click"}

\* C29: wait_and_click attempts the direct click first and the JavaScript
\* click only after the direct click failed with an element-not-interactable
\* condition; it returns True if either attempt succeeds and False only when
\* both fail, with at most one attempt of each.
C29_FallbackOnlyWhenNotInteractable ==
    ClickCall =>
        /\ Cardinality(CallsOf("click")) <= 1
        /\ Cardinality(CallsOf("js_click")) <= 1
        /\ \A j \in CallsOf("js_click") :
              /\ \E c \in CallsOf("click") : c < j
              /\ uiCall.env.click = "ElementNotInteractableException"
        /\ (uiCall.env.click = "ok" \/ uiCall.env.js = "ok") => uiResult.step.returned
        /\ (CallsOf("click") # {} /\ ~uiResult.step.returned) =>
              /\ uiCall.env.click # "ok"
              /\ CallsOf("js_click") # {}
              /\ uiCall.env.js # "ok"

\* C30: for every Click step, after the target element has become
\* interactable and before any activation attempt, the element is scrolled
\* into view.
C30_ScrollBeforeActivation ==
    ClickCall =>
        \A a \in CallsOf("click") \cup CallsOf("js_click") :
            \E s \in CallsOf("scrollIntoView") :
                /\ s < a
                /\ \E w \in CallsOf("wait") : w < s

\* Calls of type_and_enter
TypeCall == uiResult.done /\ uiCall.kind = "TypeAndEnter"

\* The order type_and_enter is claimed to keep
TypeOrder == <<"hide_mask", "wait", "click", "select_all", "delete", "backspaces",
               "type_text", "ENTER">>

\* C31: type_and_enter performs, in this order: dismiss the mask overlay if it
\* is present and visible, wait for and click the field, select-all and
\* delete, backspaces only if content remains, type the text one character at
\* a time in order, then Enter; Enter is sent only if clearing and typing
\* succeeded, otherwise the step returns False without submitting.
C31_TypeAndEnterOrder ==
    TypeCall =>
        LET calls == uiResult.step.calls
            env == uiCall.env
            typed_ok == env.typing \in {"cleared", "content_remains"}
        IN /\ \A a, b \in DOMAIN TypeOrder :
                 a < b => \A x \in CallsOf(TypeOrder[a]), y \in CallsOf(TypeOrder[b]) : x < y
           /\ \A a \in DOMAIN TypeOrder : Cardinality(CallsOf(TypeOrder[a])) <= 1
           /\ CallsOf("hide_mask") # {} <=> env.mask \in {"dismissed", "dismiss_raises"}
           /\ CallsOf("backspaces") # {} <=> env.typing = "content_remains"
           /\ CallsOf("ENTER") # {} =>
                 /\ typed_ok
                 /\ \A c \in {"wait", "click", "select_all", "delete", "type_text"} :
                       CallsOf(c) # {}
                 /\ uiResult.keys =
                       <<"CONTROL+a", "DELETE">>
                       \o (IF env.typing = "content_remains"
                           THEN [k \in 1..(Len(uiCall.current_value) + 5) |-> "BACKSPACE"]
                           ELSE <<>>)
                       \o uiCall.text \o <<"ENTER">>
           /\ uiResult.step.returned <=>
                 (CallsOf("ENTER") # {} /\ env.enter = "ok")
           /\ (env.click = "ok" /\ ~typed_ok) =>
                 /\ CallsOf("ENTER") = {}
                 /\ ~uiResult.step.returned
                 /\ uiResult.step.raised = "none"

\* A shown mask was dismissed, content remained after select-all and delete,
\* the text was typed and submitted
C31_Witness ==
    /\ TypeCall
    /\ uiCall.env.mask = "dismissed"
    /\ uiCall.env.typing = "content_remains"
    /\ uiCall.current_value = <<"o","l","d">>
    /\ uiCall.text = <<"T","X",","," ","U","S">>
    /\ uiResult.step.returned
    /\ Len(uiResult.keys) = 2 + 8 + 6 + 1

----------------------------------------------------------------------------
\* The bound of the row scan (SpecExtract)

\* C32: the row scan checks up to 20 rows: it examines table rows 1 through 20
\* in ascending order and no others, so a target key whose first occurrence
\* is in row 20 is found.
C32_ScanCoversTwentyRows ==
    ScanRan =>
        /\ \A k \in DOMAIN extraction.reads : extraction.reads[k][1] \in 1..20
        /\ \A j, k \in DOMAIN extraction.reads :
              j < k => extraction.reads[j][1] <= extraction.reads[k][1]
        /\ (/\ KeyRows # {}
            /\ Least(KeyRows) = 20
            /\ FirstMissing > 20
            /\ Table[20][data_column(cur.data_type)].state = "text")
           => /\ 20 \in RowsRead
              /\ extraction.data.extracted_value = Table[20][data_column(cur.data_type)].text

----------------------------------------------------------------------------
\* The post-login wait of _attempt_auto_login (SpecLogin)

\* C33: after submitting credentials, _attempt_auto_login checks the
\* authentication state at most 60 times, one check per one-second tick,
\* returns True at the first check that passes and returns False after 60
\* failing checks.
C33_PollAtMostSixtyChecks ==
    /\ [](/\ ticks <= 60
          /\ lpc = "poll" => (ticks < 60 /\ passedAt = "none")
          /\ passedAt = "creds" => (ticks >= 1 /\ is_logged_in(page) /\ ret.auth)
          /\ (lpc \in {"final", "done"} /\ passedAt = "none" /\ ticks > 0) => ticks = 60)
    /\ [][lpc = "poll" =>
            /\ ticks' = ticks + 1
            /\ is_logged_in(page') => (passedAt' = "creds" /\ lpc' = "done")
            /\ ~is_logged_in(page') =>
                  /\ passedAt' = "none"
                  /\ lpc' = IF ticks' = 60 THEN "final" ELSE "poll"]_vars

\* The sixtieth check is the first that passes
C33_Witness ==
    /\ passedAt = "creds"
    /\ ticks = 60
    /\ ret.returned /\ ret.auth

----------------------------------------------------------------------------
\* _is_logged_in against _is_on_login_page (SpecAuth)

----------------------------------------------------------------------------
\* The authenticated flag in the batch (SpecSession)

Unauthenticated == ret.returned /\ ret.driver /\ ~ret.auth

\* C35: the batch runner ignores the authenticated flag: when
\* login_with_selenium returns a driver with authenticated=false,
\* run_multi_automation still runs the full sequence for record 1 (and the
\* later records if it succeeds) on that unauthenticated session.
C35_UnauthenticatedSessionIsUsed ==
    /\ [](Unauthenticated =>
            /\ session \in {"open", "closed"}
            /\ idx >= 1
            /\ (bpc = "steps" /\ idx = 1) =>
                  /\ stepNo < Len(complete_steps(cur))
                  /\ \A k \in DOMAIN performed : performed[k].step = complete_steps(cur)[k]
            /\ bpc \in {"save", "finally", "returned"} =>
                  /\ runLog # <<>>
                  /\ runLog[1].row = 1
                  /\ runLog[1].returned => Len(runLog) = Len(rows))
    /\ [][(bpc = "login" /\ ret'.returned /\ ~ret'.auth) =>
            /\ bpc' = "steps"
            /\ idx' = 1
            /\ cur' = rows[1]
            /\ session' = "open"]_vars

\* Two records, both extracted and saved on a session that was never
\* authenticated
C35_Witness ==
    /\ Unauthenticated
    /\ bpc = "returned"
    /\ Len(rows) = 2
    /\ Len(all_data) = 2
    /\ csvFile.exists /\ Len(csvFile.lines) = 3

----------------------------------------------------------------------------
\* Extraction results in the batch (SpecSession)

----------------------------------------------------------------------------
\* csv_to_sheets.py: CSVToGoogleSheets.upload_to_sheets, one call of it

MaxSheetRows == 2     \* rows of values on the remote sheet before the call
MaxUploadRows == 2    \* data rows read from the CSV file

SheetHeaders == <<"Job", "Answer">>
SheetRowPool == {<<"a", "1">>, <<"b", "2", "note">>}

\* spreadsheets().values().update(range='Sheet1', valueInputOption='RAW'):
\* the cells given are written from the top-left corner, every other cell
\* keeps its value
update_values(old, values) ==
    LET height == IF Len(old) > Len(values) THEN Len(old) ELSE Len(values)
    IN [i \in 1..height |->
          IF i > Len(values) THEN old[i]
          ELSE IF i > Len(old) THEN values[i]
          ELSE values[i] \o SubSeq(old[i], Len(values[i]) + 1, Len(old[i]))]

\* spreadsheets().values().clear(range='Sheet1'): no value is left
clear_values(old) == <<>>

after_clear_regardless(cleared) == "update"

\* if clear_first: if not self.clear_sheet(): return False
after_clear(cleared) == IF cleared THEN "update" ELSE "done"

\* Outcomes of one .execute(): the API applies the request, or it raises
\* without having changed the sheet
ExecuteOutcomes == {"applied", "raises"}

InitUpload ==
    /\ sheet \in SeqsUpTo(SheetRowPool, MaxSheetRows)
    /\ requests = <<>>
    /\ \E data_rows \in SeqsUpTo(SheetRowPool, MaxUploadRows),
          clear_first \in BOOLEAN, service \in BOOLEAN :
         upload = [pc |-> "start", headers |-> SheetHeaders, data_rows |-> data_rows,
                   clear_first |-> clear_first, service |-> service,
                   before |-> sheet, cleared |-> "none", returned |-> "none"]
    /\ source = <<>>
    /\ ingested = NoIngest
    /\ saveCalls = <<>>
    /\ uiCall = NoCall
    /\ uiResult = NoResult
    /\ resultsView = NoView
    /\ extraction = NoExtraction
    /\ user_input = <<>>
    /\ parsed = NoParse
    /\ BatchIdle
    /\ LoginIdle

UploadFrame ==
    /\ UNCHANGED <<source, ingested, saveCalls, uiCall, uiResult>>
    /\ UNCHANGED <<resultsView, extraction, user_input, parsed>>
    /\ UNCHANGED batchVars
    /\ UNCHANGED loginVars

\* upload_to_sheets is entered: clear first or go straight to the update
BeginUpload ==
    /\ upload.pc = "start"
    /\ upload' = [upload EXCEPT !.pc = IF upload.clear_first THEN "clear" ELSE "update"]
    /\ UNCHANGED <<sheet, requests>>
    /\ UploadFrame

\* clear_sheet: with no service built the attribute access raises before any
\* request; otherwise the clear request is executed; every exception is
\* caught and makes clear_sheet return False
ClearSheet ==
    /\ upload.pc = "clear"
    /\ \E outcome \in ExecuteOutcomes :
         LET issued == upload.service
             cleared == issued /\ outcome = "applied"
         IN /\ requests' = IF issued
                            THEN Append(requests, [op |-> "clear", ok |-> cleared, values |-> <<>>])
                            ELSE requests
            /\ sheet' = IF cleared THEN clear_values(sheet) ELSE sheet
            /\ upload' = [upload EXCEPT !.cleared = IF cleared THEN "True" ELSE "False",
                                          !.pc = after_clear(cleared),
                                          !.returned = IF after_clear(cleared) = "done"
                                                       THEN "False" ELSE "none"]
    /\ UploadFrame

\* The update request with [headers] + data_rows; True when it was executed,
\* False when anything raised
UpdateSheet ==
    /\ upload.pc = "update"
    /\ \E outcome \in ExecuteOutcomes :
         LET issued == upload.service
             applied == issued /\ outcome = "applied"
             values == <<upload.headers>> \o upload.data_rows
         IN /\ requests' = IF issued
                            THEN Append(requests, [op |-> "update", ok |-> applied, values |-> values])
                            ELSE requests
            /\ sheet' = IF applied THEN update_values(sheet, values) ELSE sheet
            /\ upload' = [upload EXCEPT !.pc = "done",
                                          !.returned = IF applied THEN "True" ELSE "False"]
    /\ UploadFrame

NextUpload ==
    \/ BeginUpload
    \/ ClearSheet
    \/ UpdateSheet

SpecUpload == InitUpload /\ [][NextUpload]_vars

----------------------------------------------------------------------------
\* Properties of the sheet upload

UpdateRequests == {k \in DOMAIN requests : requests[k].op = "update"}

\* C38: in full-upload mode (clear_first) the clear request precedes the
\* update request, and the update is issued only if the clear succeeded: a
\* failed clear makes upload_to_sheets return False with no update issued and
\* the sheet untouched.
C38_UpdateOnlyAfterSuccessfulClear ==
    upload.clear_first =>
        /\ \A k \in UpdateRequests :
              /\ k = 2
              /\ requests[1].op = "clear"
              /\ requests[1].ok
              /\ upload.cleared = "True"
        /\ upload.pc = "update" => upload.cleared = "True"
        /\ upload.cleared = "False" =>
              /\ upload.pc = "done"
              /\ upload.returned = "False"
              /\ UpdateRequests = {}
              /\ sheet = upload.before

\* A full upload whose clear request was refused: False is returned, the
\* clear is the only request made and the sheet still holds its two rows
C38_Witness ==
    /\ upload.pc = "done"
    /\ upload.clear_first
    /\ upload.cleared = "False"
    /\ upload.returned = "False"
    /\ requests = <<[op |-> "clear", ok |-> FALSE, values |-> <<>>]>>
    /\ Len(upload.data_rows) = 2
    /\ Len(sheet) = 2
    /\ sheet = upload.before

====
